---- MODULE Spec2Model ----
(***************************************************************************)
(* Model of the Printify MCP server's catalog client (PrintifyAPI: the     *)
(* retrying fetchers makeRequest / makeCatalogRequest, the blueprint cache *)
(* and the cache-first catalog operations) and of the variant matching     *)
(* ladder of the create-product-simple tool.                               *)
(*                                                                         *)
(* An action is the code that runs between two awaits of one async call:   *)
(* the JavaScript event loop runs such a stretch atomically.               *)
(***************************************************************************)
EXTENDS Integers, Sequences, FiniteSets, TLC

\* ------------------------------------------------------------------ bounds

\* Largest retry budget a direct fetcher call is started with.
MaxRetries == 3
\* Number of client operations started in one behaviour of the cache model.
MaxCalls == 2
\* Number of clock steps in one behaviour of the cache model.
MaxTicks == 2
\* Longest variant list the matcher is run on.
MaxVariants == 6
\* Longest variant list taken in every order of its entries.
MaxAnyOrder == 2
\* Largest of the small base costs calculatePricing is called with.
MaxBaseCost == 8

\* Registrations.
MaxSessions == 2

\* Steps of the server's clock.
MaxQuanta == 9

\* The largest retry budget a fetcher is called with where the delays are
\* looked at: one above the default, so that the delays reach their caps.
MaxBackoffs == 4

\* --------------------------------------------------------- program constants

\* retries: number = 3
DefaultRetries == 3
\* private cacheTimeout = 3600000
cacheTimeout == 3600000

\* The callers (async call chains) of the client.
Procs == {"p1", "p2"}

\* --------------------------------------------------------------- error codes

AUTH_FAILED == "AUTH_FAILED"
RATE_LIMIT == "RATE_LIMIT"
NOT_FOUND == "NOT_FOUND"
NETWORK_ERROR == "NETWORK_ERROR"
TIMEOUT == "TIMEOUT"
VALIDATION_ERROR == "VALIDATION_ERROR"
SERVER_ERROR == "SERVER_ERROR"
UNKNOWN_ERROR == "UNKNOWN_ERROR"

PrintifyErrorCode ==
  {AUTH_FAILED, RATE_LIMIT, NOT_FOUND, NETWORK_ERROR, TIMEOUT,
   VALIDATION_ERROR, SERVER_ERROR, UNKNOWN_ERROR}

\* new PrintifyError(message, code, statusCode, context); statusCode 0 stands
\* for undefined.
PrintifyError(code, statusCode) ==
  [name |-> "PrintifyError", code |-> code, statusCode |-> statusCode]

\* An error thrown by fetch or by response.json() itself.
RawError(name, code) == [name |-> name, code |-> code, statusCode |-> 0]

\* ------------------------------------------------------------ the upstream

\* JSON values: the bodies the upstream answers with are JSON objects, named
\* by body; Null is JavaScript's null; FallbackCatalog(page, limit) is the
\* object literal fallbackBlueprints of getBlueprints, whose current_page and
\* per_page echo the arguments. _filtered and _popular are the marks that
\* searchBlueprints and getPopularBlueprints put on the copy they return.
Json(body, fallback, page, limit) ==
  [body |-> body, _fallback |-> fallback, current_page |-> page, per_page |-> limit,
   _filtered |-> FALSE, _popular |-> FALSE]
Null == Json("null", FALSE, 0, 0)
Live(body) == Json(body, FALSE, 0, 0)
\* fallbackBlueprints without its _fallback mark
FallbackCatalogUnmarked(page, limit) == Json("fallbackBlueprints", FALSE, page, limit)
FallbackCatalog(page, limit) == Json("fallbackBlueprints", TRUE, page, limit)

\* if (cached): null is falsy, an object is truthy.
Truthy(v) == v # Null

\* What one HTTP attempt can end in: a response with a status (and, when the
\* status is 200, a JSON body), the abort of the request timer, an error of
\* the socket with a code, or a 200 whose body is not JSON.
Http(status, body) == [t |-> "http", status |-> status, code |-> "", body |-> body]
Abort == [t |-> "abort", status |-> 0, code |-> "", body |-> Null]
NetErr(code) == [t |-> "neterr", status |-> 0, code |-> code, body |-> Null]
BadJson == [t |-> "badjson", status |-> 200, code |-> "", body |-> Null]

\* Response bodies of successful answers.
Data == {Live("d1"), Live("d2")}

\* Bodies that are lists or hold one: a list of print providers that is not
\* empty, the empty list, an object whose variants are a list that is not
\* empty, and one whose variants are the empty list.
ProvidersBody == Live("[provider]")
NoProvidersBody == Live("[]")
VariantsBody == Live("{ variants: [variant] }")
NoVariantsBody == Live("{ variants: [] }")

ErrorStatuses == {400, 401, 403, 404, 422, 429, 500, 503}
NetCodes == {"ECONNRESET", "ETIMEDOUT", "EPIPE", "ENOTFOUND"}

AllOutcomes ==
  {Http(200, d) : d \in Data} \cup {Http(s, Null) : s \in ErrorStatuses}
    \cup {Abort, BadJson} \cup {NetErr(c) : c \in NetCodes}

\* The outcomes the cache model draws from.
FewOutcomes ==
  {Http(200, d) : d \in Data} \cup {Http(401, Null), Http(500, Null)}

\* response.ok
ResponseOk(status) == status >= 200 /\ status <= 299

\* ------------------------------------------------------------- the fetchers

\* "Map status codes to error codes".
Classify(status) ==
  IF status = 401 THEN AUTH_FAILED
  ELSE IF status = 429 THEN RATE_LIMIT
  ELSE IF status = 404 THEN NOT_FOUND
  ELSE IF status = 400 \/ status = 422 THEN VALIDATION_ERROR
  ELSE IF status >= 500 THEN SERVER_ERROR
  ELSE UNKNOWN_ERROR

Min(a, b) == IF a < b THEN a ELSE b

Pow2(n) == 2 ^ n

\* 1000 * Math.pow(2, attempt), without its cap
HttpDelayUncapped(attempt) == 1000 * Pow2(attempt)

\* Math.min(1000 * Math.pow(2, attempt), 5000)
HttpDelay(attempt) == Min(1000 * Pow2(attempt), 5000)
\* Math.min(2000 * Math.pow(2, attempt), 10000)
TimeoutDelay(attempt) == Min(2000 * Pow2(attempt), 10000)

\* error.code === 'ECONNRESET' || error.code === 'ETIMEDOUT' || error.code === 'EPIPE'
TransientNetCode(code) == code \in {"ECONNRESET", "ETIMEDOUT", "EPIPE"}

\* `attempt < retries`, with `<` replaced by `<=`
CanRetryOnceMore(attempt, retries) == attempt <= retries

\* `attempt < retries`: a retry is left in the budget.
CanRetry(attempt, retries) == attempt < retries

\* "Retry on rate limit or server errors": the condition on the status, with
\* every client error retried as well.
RetryableStatusBroken(status) == status >= 400

\* "Retry on rate limit or server errors": the condition on the status.
RetryableStatus(status) == status = 429 \/ status >= 500

NoErr == [name |-> "", code |-> "", statusCode |-> 0]

\* What a call, or one iteration of a fetcher, ends in.
Return(data) == [t |-> "return", data |-> data, err |-> NoErr, delay |-> 0]
Throw(err) == [t |-> "throw", data |-> Null, err |-> err, delay |-> 0]
Retry(delay) == [t |-> "retry", data |-> Null, err |-> NoErr, delay |-> delay]
Pending == [t |-> "pending", data |-> Null, err |-> NoErr, delay |-> 0]

\* One iteration of the loop `for (attempt = 0; attempt <= retries; attempt++)`
\* of makeRequest and of makeCatalogRequest (the two differ in the timer and
\* in the texts only), from the answer to `await fetch(...)` on: the call
\* returns the body, sleeps for a delay and loops, or fails with an error.
\* A PrintifyError thrown in the try block passes the catch block unchanged:
\* its name is not AbortError and its code is none of the socket codes.
AttemptStep(o, attempt, retries) ==
  IF o.t = "http" /\ ~ResponseOk(o.status)
    THEN IF RetryableStatus(o.status) /\ CanRetry(attempt, retries)
           THEN Retry(HttpDelay(attempt))
           ELSE Throw(PrintifyError(Classify(o.status), o.status))
  ELSE IF o.t = "http"
    THEN Return(o.body)
  ELSE IF o.t = "abort"
    THEN IF CanRetry(attempt, retries)
           THEN Retry(TimeoutDelay(attempt))
           ELSE Throw(PrintifyError(TIMEOUT, 0))
  ELSE IF o.t = "neterr" /\ TransientNetCode(o.code)
    THEN IF CanRetry(attempt, retries)
           THEN Retry(HttpDelay(attempt))
           ELSE Throw(PrintifyError(NETWORK_ERROR, 0))
  ELSE IF o.t = "neterr"
    THEN Throw(RawError("FetchError", o.code))
  ELSE Throw(RawError("SyntaxError", ""))

\* ------------------------------------------------------------------ strings

\* A string is the sequence of its characters.
UpperChars ==
  <<"A", "B", "C", "D", "E", "F", "G", "H", "I", "J", "K", "L", "M",
    "N", "O", "P", "Q", "R", "S", "T", "U", "V", "W", "X", "Y", "Z">>
LowerChars ==
  <<"a", "b", "c", "d", "e", "f", "g", "h", "i", "j", "k", "l", "m",
    "n", "o", "p", "q", "r", "s", "t", "u", "v", "w", "x", "y", "z">>
DigitChars == {"0", "1", "2", "3", "4", "5", "6", "7", "8", "9"}

UpperSet == {UpperChars[i] : i \in 1..26}
LowerSet == {LowerChars[i] : i \in 1..26}
LowerOf == [c \in UpperSet |-> LowerChars[CHOOSE i \in 1..26 : UpperChars[i] = c]]
UpperOf == [c \in LowerSet |-> UpperChars[CHOOSE i \in 1..26 : LowerChars[i] = c]]

\* The lower-case and the upper-case form of a character.
LowerChar(c) == IF c \in UpperSet THEN LowerOf[c] ELSE c
UpperChar(c) == IF c \in LowerSet THEN UpperOf[c] ELSE c

\* String.prototype.toLowerCase, toUpperCase
toLowerCase(s) == [i \in 1..Len(s) |-> LowerChar(s[i])]
toUpperCase(s) == [i \in 1..Len(s) |-> UpperChar(s[i])]

\* \s
IsSpace(c) == c = " "
\* \w
IsWord(c) == c \in UpperSet \/ c \in LowerSet \/ c \in DigitChars \/ c = "_"
\* [/\-\s]
IsSeparator(c) == c = "/" \/ c = "-" \/ IsSpace(c)

\* String.prototype.trim
RECURSIVE trim(_)
trim(s) ==
  IF s = <<>> THEN s
  ELSE IF IsSpace(s[1]) THEN trim(Tail(s))
  ELSE IF IsSpace(s[Len(s)]) THEN trim(SubSeq(s, 1, Len(s) - 1))
  ELSE s

\* String.prototype.split(',')
RECURSIVE split(_)
split(s) ==
  IF \E i \in 1..Len(s) : s[i] = ","
    THEN LET i == CHOOSE i \in 1..Len(s) :
                    s[i] = "," /\ \A j \in 1..(i - 1) : s[j] # ","
         IN  <<SubSeq(s, 1, i - 1)>> \o split(SubSeq(s, i + 1, Len(s)))
    ELSE <<s>>

\* String.prototype.includes
includes(haystack, needle) ==
  \E i \in 0..(Len(haystack) - Len(needle)) :
    \A j \in 1..Len(needle) : haystack[i + j] = needle[j]

\* Array.prototype.map, .includes on sequences
Map(Op(_), seq) == [i \in 1..Len(seq) |-> Op(seq[i])]
Contains(seq, x) == \E i \in 1..Len(seq) : seq[i] = x

\* ------------------------------------------------------- color normalization

\* const COLOR_MAPPINGS: pairs <<key, value>>
COLOR_MAPPINGS ==
  <<<<<<"c", "a", "r", "o", "l", "i", "n", "a", " ", "b", "l", "u", "e">>, <<"b", "l", "u", "e">>>>,
    <<<<"s", "k", "y", " ", "b", "l", "u", "e">>, <<"b", "l", "u", "e">>>>,
    <<<<"b", "a", "b", "y", " ", "b", "l", "u", "e">>, <<"b", "l", "u", "e">>>>,
    <<<<"r", "o", "y", "a", "l", " ", "b", "l", "u", "e">>, <<"b", "l", "u", "e">>>>,
    <<<<"n", "a", "v", "y", " ", "b", "l", "u", "e">>, <<"b", "l", "u", "e">>>>,
    <<<<"o", "c", "e", "a", "n", " ", "b", "l", "u", "e">>, <<"b", "l", "u", "e">>>>,
    <<<<"c", "o", "b", "a", "l", "t">>, <<"b", "l", "u", "e">>>>,
    <<<<"a", "z", "u", "r", "e">>, <<"b", "l", "u", "e">>>>,
    <<<<"t", "e", "a", "l">>, <<"b", "l", "u", "e">>>>,
    <<<<"t", "u", "r", "q", "u", "o", "i", "s", "e">>, <<"b", "l", "u", "e">>>>,
    <<<<"j", "e", "t", " ", "b", "l", "a", "c", "k">>, <<"b", "l", "a", "c", "k">>>>,
    <<<<"m", "i", "d", "n", "i", "g", "h", "t">>, <<"b", "l", "a", "c", "k">>>>,
    <<<<"c", "h", "a", "r", "c", "o", "a", "l">>, <<"g", "r", "a", "y">>>>,
    <<<<"h", "e", "a", "t", "h", "e", "r", " ", "g", "r", "a", "y">>, <<"g", "r", "a", "y">>>>,
    <<<<"h", "e", "a", "t", "h", "e", "r", " ", "g", "r", "e", "y">>, <<"g", "r", "a", "y">>>>,
    <<<<"s", "i", "l", "v", "e", "r">>, <<"g", "r", "a", "y">>>>,
    <<<<"a", "s", "h">>, <<"g", "r", "a", "y">>>>,
    <<<<"s", "l", "a", "t", "e">>, <<"g", "r", "a", "y">>>>,
    <<<<"o", "f", "f", " ", "w", "h", "i", "t", "e">>, <<"w", "h", "i", "t", "e">>>>,
    <<<<"o", "f", "f", "-", "w", "h", "i", "t", "e">>, <<"w", "h", "i", "t", "e">>>>,
    <<<<"i", "v", "o", "r", "y">>, <<"w", "h", "i", "t", "e">>>>,
    <<<<"c", "r", "e", "a", "m">>, <<"w", "h", "i", "t", "e">>>>,
    <<<<"n", "a", "t", "u", "r", "a", "l">>, <<"w", "h", "i", "t", "e">>>>,
    <<<<"s", "n", "o", "w">>, <<"w", "h", "i", "t", "e">>>>,
    <<<<"c", "a", "r", "d", "i", "n", "a", "l">>, <<"r", "e", "d">>>>,
    <<<<"s", "c", "a", "r", "l", "e", "t">>, <<"r", "e", "d">>>>,
    <<<<"c", "r", "i", "m", "s", "o", "n">>, <<"r", "e", "d">>>>,
    <<<<"b", "u", "r", "g", "u", "n", "d", "y">>, <<"r", "e", "d">>>>,
    <<<<"c", "h", "e", "r", "r", "y">>, <<"r", "e", "d">>>>,
    <<<<"r", "u", "b", "y">>, <<"r", "e", "d">>>>,
    <<<<"m", "a", "r", "o", "o", "n">>, <<"r", "e", "d">>>>,
    <<<<"f", "o", "r", "e", "s", "t", " ", "g", "r", "e", "e", "n">>, <<"g", "r", "e", "e", "n">>>>,
    <<<<"o", "l", "i", "v", "e">>, <<"g", "r", "e", "e", "n">>>>,
    <<<<"e", "m", "e", "r", "a", "l", "d">>, <<"g", "r", "e", "e", "n">>>>,
    <<<<"m", "i", "n", "t">>, <<"g", "r", "e", "e", "n">>>>,
    <<<<"s", "a", "g", "e">>, <<"g", "r", "e", "e", "n">>>>,
    <<<<"l", "i", "m", "e">>, <<"g", "r", "e", "e", "n">>>>,
    <<<<"k", "e", "l", "l", "y", " ", "g", "r", "e", "e", "n">>, <<"g", "r", "e", "e", "n">>>>,
    <<<<"h", "u", "n", "t", "e", "r", " ", "g", "r", "e", "e", "n">>, <<"g", "r", "e", "e", "n">>>>,
    <<<<"r", "o", "s", "e">>, <<"p", "i", "n", "k">>>>,
    <<<<"b", "l", "u", "s", "h">>, <<"p", "i", "n", "k">>>>,
    <<<<"f", "u", "c", "h", "s", "i", "a">>, <<"p", "i", "n", "k">>>>,
    <<<<"m", "a", "g", "e", "n", "t", "a">>, <<"p", "i", "n", "k">>>>,
    <<<<"c", "o", "r", "a", "l">>, <<"p", "i", "n", "k">>>>,
    <<<<"s", "a", "l", "m", "o", "n">>, <<"p", "i", "n", "k">>>>,
    <<<<"v", "i", "o", "l", "e", "t">>, <<"p", "u", "r", "p", "l", "e">>>>,
    <<<<"l", "a", "v", "e", "n", "d", "e", "r">>, <<"p", "u", "r", "p", "l", "e">>>>,
    <<<<"p", "l", "u", "m">>, <<"p", "u", "r", "p", "l", "e">>>>,
    <<<<"e", "g", "g", "p", "l", "a", "n", "t">>, <<"p", "u", "r", "p", "l", "e">>>>,
    <<<<"o", "r", "c", "h", "i", "d">>, <<"p", "u", "r", "p", "l", "e">>>>,
    <<<<"g", "o", "l", "d">>, <<"y", "e", "l", "l", "o", "w">>>>,
    <<<<"m", "u", "s", "t", "a", "r", "d">>, <<"y", "e", "l", "l", "o", "w">>>>,
    <<<<"l", "e", "m", "o", "n">>, <<"y", "e", "l", "l", "o", "w">>>>,
    <<<<"b", "u", "t", "t", "e", "r">>, <<"y", "e", "l", "l", "o", "w">>>>,
    <<<<"s", "u", "n", "s", "h", "i", "n", "e">>, <<"y", "e", "l", "l", "o", "w">>>>,
    <<<<"r", "u", "s", "t">>, <<"o", "r", "a", "n", "g", "e">>>>,
    <<<<"b", "u", "r", "n", "t", " ", "o", "r", "a", "n", "g", "e">>, <<"o", "r", "a", "n", "g", "e">>>>,
    <<<<"t", "a", "n", "g", "e", "r", "i", "n", "e">>, <<"o", "r", "a", "n", "g", "e">>>>,
    <<<<"p", "e", "a", "c", "h">>, <<"o", "r", "a", "n", "g", "e">>>>,
    <<<<"a", "p", "r", "i", "c", "o", "t">>, <<"o", "r", "a", "n", "g", "e">>>>,
    <<<<"t", "a", "n">>, <<"b", "r", "o", "w", "n">>>>,
    <<<<"b", "e", "i", "g", "e">>, <<"b", "r", "o", "w", "n">>>>,
    <<<<"t", "a", "u", "p", "e">>, <<"b", "r", "o", "w", "n">>>>,
    <<<<"c", "h", "o", "c", "o", "l", "a", "t", "e">>, <<"b", "r", "o", "w", "n">>>>,
    <<<<"c", "o", "f", "f", "e", "e">>, <<"b", "r", "o", "w", "n">>>>,
    <<<<"m", "o", "c", "h", "a">>, <<"b", "r", "o", "w", "n">>>>>>

\* const standardColors
standardColors ==
  <<<<"w", "h", "i", "t", "e">>,
    <<"b", "l", "a", "c", "k">>,
    <<"g", "r", "a", "y">>,
    <<"g", "r", "e", "y">>,
    <<"r", "e", "d">>,
    <<"b", "l", "u", "e">>,
    <<"g", "r", "e", "e", "n">>,
    <<"p", "i", "n", "k">>,
    <<"p", "u", "r", "p", "l", "e">>,
    <<"y", "e", "l", "l", "o", "w">>,
    <<"o", "r", "a", "n", "g", "e">>,
    <<"b", "r", "o", "w", "n">>,
    <<"n", "a", "v", "y">>>>

\* COLOR_MAPPINGS[key], with no key found
ColorMappingNone(key) == <<>>

\* COLOR_MAPPINGS[key]: the value, or <<>> (undefined) when there is none.
ColorMapping(key) ==
  IF \E i \in 1..Len(COLOR_MAPPINGS) : COLOR_MAPPINGS[i][1] = key
    THEN COLOR_MAPPINGS[CHOOSE i \in 1..Len(COLOR_MAPPINGS) : COLOR_MAPPINGS[i][1] = key][2]
    ELSE <<>>

Gray == <<"g", "r", "a", "y">>
Grey == <<"g", "r", "e", "y">>

\* standardColor === 'grey' ? 'gray' : standardColor, with grey kept
GreyKept(c) == c

\* standardColor === 'grey' ? 'gray' : standardColor
GreyToGray(c) == IF c = Grey THEN Gray ELSE c

\* normalizeColorName(color)
normalizeColorName(color) ==
  LET lowerColor == trim(toLowerCase(color))
      hits == {i \in 1..Len(standardColors) : includes(lowerColor, standardColors[i])}
  IN  IF Contains(standardColors, lowerColor) THEN GreyToGray(lowerColor)
      ELSE IF ColorMapping(lowerColor) # <<>> THEN ColorMapping(lowerColor)
      ELSE IF hits # {}
        THEN GreyToGray(standardColors[CHOOSE i \in hits : \A j \in hits : i <= j])
      ELSE lowerColor

\* The color names normalizeColorName is called with: the standard colors,
\* the keys of COLOR_MAPPINGS, and names in other spellings, names that
\* contain a standard color, and names that are unknown.
ColorNames ==
  {standardColors[i] : i \in 1..Len(standardColors)}
    \cup {COLOR_MAPPINGS[i][1] : i \in 1..Len(COLOR_MAPPINGS)}
    \cup {<<"W", "h", "i", "t", "e">>, <<" ", "N", "A", "V", "Y", " ">>,
          <<"G", "r", "e", "y">>, <<"T", "e", "a", "l">>,
          <<"N", "a", "v", "y", " ", "B", "l", "u", "e">>,
          <<"l", "i", "g", "h", "t", " ", "g", "r", "e", "y">>,
          <<"d", "a", "r", "k", " ", "n", "a", "v", "y">>,
          <<"r", "e", "d", "d", "i", "s", "h", " ", "b", "r", "o", "w", "n">>,
          <<"k", "h", "a", "k", "i">>, <<>>}

VARIABLES
  npc,         \* normalizeColorName: called, or returned
  colorName,   \* its argument
  normalized   \* what it returned

colorVars == <<npc, colorName, normalized>>

\* No call of normalizeColorName.
NoColor ==
  /\ npc = "none"
  /\ colorName = <<>>
  /\ normalized = <<>>

\* normalizeColorName is called with some name.
InitColor ==
  /\ npc = "called"
  /\ colorName \in ColorNames
  /\ normalized = <<>>

\* normalizeColorName(color) returns.
NormalizeColor ==
  /\ npc = "called"
  /\ npc' = "returned"
  /\ normalized' = normalizeColorName(colorName)
  /\ UNCHANGED colorName

\* ----------------------------------------------------------- variant matching

\* const colorVariations: pairs <<key, spellings>>
colorVariations ==
  <<<<<<"w", "h", "i", "t", "e">>,
      <<<<"w", "h", "i", "t", "e">>,
        <<"s", "o", "l", "i", "d", " ", "w", "h", "i", "t", "e">>,
        <<"n", "a", "t", "u", "r", "a", "l">>,
        <<"c", "r", "e", "a", "m">>,
        <<"i", "v", "o", "r", "y">>,
        <<"o", "f", "f", "-", "w", "h", "i", "t", "e">>,
        <<"s", "n", "o", "w">>>>>>,
    <<<<"b", "l", "a", "c", "k">>,
      <<<<"b", "l", "a", "c", "k">>,
        <<"s", "o", "l", "i", "d", " ", "b", "l", "a", "c", "k">>,
        <<"d", "a", "r", "k">>,
        <<"j", "e", "t", " ", "b", "l", "a", "c", "k">>,
        <<"m", "i", "d", "n", "i", "g", "h", "t">>>>>>,
    <<<<"g", "r", "a", "y">>,
      <<<<"g", "r", "a", "y">>,
        <<"g", "r", "e", "y">>,
        <<"h", "e", "a", "t", "h", "e", "r", " ", "g", "r", "a", "y">>,
        <<"h", "e", "a", "t", "h", "e", "r", " ", "g", "r", "e", "y">>,
        <<"c", "h", "a", "r", "c", "o", "a", "l">>,
        <<"s", "i", "l", "v", "e", "r">>,
        <<"a", "s", "h">>,
        <<"s", "l", "a", "t", "e">>>>>>,
    <<<<"r", "e", "d">>,
      <<<<"r", "e", "d">>,
        <<"c", "a", "r", "d", "i", "n", "a", "l">>,
        <<"s", "c", "a", "r", "l", "e", "t">>,
        <<"c", "r", "i", "m", "s", "o", "n">>,
        <<"b", "u", "r", "g", "u", "n", "d", "y">>,
        <<"c", "h", "e", "r", "r", "y">>,
        <<"r", "u", "b", "y">>,
        <<"m", "a", "r", "o", "o", "n">>>>>>,
    <<<<"b", "l", "u", "e">>,
      <<<<"b", "l", "u", "e">>,
        <<"n", "a", "v", "y">>,
        <<"r", "o", "y", "a", "l", " ", "b", "l", "u", "e">>,
        <<"s", "a", "p", "p", "h", "i", "r", "e">>,
        <<"c", "a", "r", "o", "l", "i", "n", "a", " ", "b", "l", "u", "e">>,
        <<"s", "k", "y", " ", "b", "l", "u", "e">>,
        <<"b", "a", "b", "y", " ", "b", "l", "u", "e">>,
        <<"o", "c", "e", "a", "n">>,
        <<"c", "o", "b", "a", "l", "t">>,
        <<"a", "z", "u", "r", "e">>,
        <<"t", "e", "a", "l">>>>>>,
    <<<<"g", "r", "e", "e", "n">>,
      <<<<"g", "r", "e", "e", "n">>,
        <<"f", "o", "r", "e", "s", "t">>,
        <<"o", "l", "i", "v", "e">>,
        <<"e", "m", "e", "r", "a", "l", "d">>,
        <<"m", "i", "n", "t">>,
        <<"s", "a", "g", "e">>,
        <<"l", "i", "m", "e">>,
        <<"k", "e", "l", "l", "y", " ", "g", "r", "e", "e", "n">>,
        <<"h", "u", "n", "t", "e", "r", " ", "g", "r", "e", "e", "n">>>>>>,
    <<<<"p", "i", "n", "k">>,
      <<<<"p", "i", "n", "k">>,
        <<"r", "o", "s", "e">>,
        <<"b", "l", "u", "s", "h">>,
        <<"f", "u", "c", "h", "s", "i", "a">>,
        <<"m", "a", "g", "e", "n", "t", "a">>,
        <<"c", "o", "r", "a", "l">>,
        <<"s", "a", "l", "m", "o", "n">>>>>>,
    <<<<"p", "u", "r", "p", "l", "e">>,
      <<<<"p", "u", "r", "p", "l", "e">>,
        <<"v", "i", "o", "l", "e", "t">>,
        <<"l", "a", "v", "e", "n", "d", "e", "r">>,
        <<"p", "l", "u", "m">>,
        <<"e", "g", "g", "p", "l", "a", "n", "t">>,
        <<"o", "r", "c", "h", "i", "d">>>>>>,
    <<<<"y", "e", "l", "l", "o", "w">>,
      <<<<"y", "e", "l", "l", "o", "w">>,
        <<"g", "o", "l", "d">>,
        <<"m", "u", "s", "t", "a", "r", "d">>,
        <<"l", "e", "m", "o", "n">>,
        <<"b", "u", "t", "t", "e", "r">>,
        <<"s", "u", "n", "s", "h", "i", "n", "e">>>>>>,
    <<<<"o", "r", "a", "n", "g", "e">>,
      <<<<"o", "r", "a", "n", "g", "e">>,
        <<"r", "u", "s", "t">>,
        <<"b", "u", "r", "n", "t", " ", "o", "r", "a", "n", "g", "e">>,
        <<"t", "a", "n", "g", "e", "r", "i", "n", "e">>,
        <<"p", "e", "a", "c", "h">>,
        <<"a", "p", "r", "i", "c", "o", "t">>>>>>,
    <<<<"b", "r", "o", "w", "n">>,
      <<<<"b", "r", "o", "w", "n">>,
        <<"t", "a", "n">>,
        <<"b", "e", "i", "g", "e">>,
        <<"t", "a", "u", "p", "e">>,
        <<"c", "h", "o", "c", "o", "l", "a", "t", "e">>,
        <<"c", "o", "f", "f", "e", "e">>,
        <<"m", "o", "c", "h", "a">>>>>>>>

\* const commonColors, with 'navy' left out
commonColorsWithoutNavy == <<<<"w", "h", "i", "t", "e">>, <<"b", "l", "a", "c", "k">>, <<"g", "r", "a", "y">>>>

\* const commonColors, commonSizes
commonColors == <<<<"w", "h", "i", "t", "e">>, <<"b", "l", "a", "c", "k">>, <<"g", "r", "a", "y">>, <<"n", "a", "v", "y">>>>
commonSizes == <<<<"M">>, <<"L">>, <<"X", "L">>>>

\* colorVariations[colorLower] || []
Variations(colorLower) ==
  IF \E i \in 1..Len(colorVariations) : colorVariations[i][1] = colorLower
    THEN colorVariations[CHOOSE i \in 1..Len(colorVariations) :
                           colorVariations[i][1] = colorLower][2]
    ELSE <<>>

\* enhancedColorMatch(variantTitle, requestedColor)
enhancedColorMatch(variantTitle, requestedColor) ==
  LET titleLower == toLowerCase(variantTitle)
      colorLower == toLowerCase(requestedColor)
      variations == Variations(colorLower)
  IN  \/ includes(titleLower, colorLower)
      \/ \E i \in 1..Len(variations) : includes(titleLower, variations[i])

\* The size, as a pattern with flag i, matches the title from place pos on:
\* the size is not escaped, so that a "." in it stands for any character; its
\* other characters stand for themselves, in either case.
MatchAt(title, pos, size) ==
  /\ pos >= 1
  /\ pos + Len(size) - 1 <= Len(title)
  /\ \A j \in 1..Len(size) :
       \/ size[j] = "."
       \/ LowerChar(title[pos + j - 1]) = LowerChar(size[j])

\* \s* matches the places from..to of the title.
Spaces(title, from, to) == \A i \in from..to : IsSpace(title[i])

\* \b holds between the places pos - 1 and pos of the title.
WordBoundary(title, pos) ==
  LET before == pos - 1 >= 1 /\ pos - 1 <= Len(title) /\ IsWord(title[pos - 1])
      after == pos >= 1 /\ pos <= Len(title) /\ IsWord(title[pos])
  IN  before # after

\* new RegExp(`[/\\-\\s]\\s*${requestedSize}\\s*$`, 'i').test(title)
SizeAtEnd(title, size) ==
  \E i \in 1..Len(title) :
    /\ IsSeparator(title[i])
    /\ \E s \in (i + 1)..(Len(title) + 1) :
         /\ Spaces(title, i + 1, s - 1)
         /\ MatchAt(title, s, size)
         /\ Spaces(title, s + Len(size), Len(title))

\* new RegExp(`[/\\-\\s]\\s*${requestedSize}\\s*[/\\-\\s]`, 'i').test(title)
SizeInMiddle(title, size) ==
  \E i \in 1..Len(title) :
    /\ IsSeparator(title[i])
    /\ \E s \in (i + 1)..(Len(title) + 1) :
         /\ Spaces(title, i + 1, s - 1)
         /\ MatchAt(title, s, size)
         /\ \E e \in (s + Len(size))..Len(title) :
              /\ Spaces(title, s + Len(size), e - 1)
              /\ IsSeparator(title[e])

\* new RegExp(`^${requestedSize}\\s*[/\\-\\s]`, 'i').test(title)
SizeAtStart(title, size) ==
  /\ MatchAt(title, 1, size)
  /\ \E e \in (1 + Len(size))..Len(title) :
       /\ Spaces(title, 1 + Len(size), e - 1)
       /\ IsSeparator(title[e])

\* new RegExp(`\\b${requestedSize}\\b`, 'i').test(title)
SizeAsWord(title, size) ==
  \E s \in 1..(Len(title) + 1) :
    /\ WordBoundary(title, s)
    /\ MatchAt(title, s, size)
    /\ WordBoundary(title, s + Len(size))

\* The number of groups left open after the size, or -1 when it closes a
\* group that is not open.
RECURSIVE OpenGroups(_, _)
OpenGroups(size, depth) ==
  IF size = <<>> THEN depth
  ELSE IF size[1] = "(" THEN OpenGroups(Tail(size), depth + 1)
  ELSE IF size[1] = ")"
    THEN IF depth = 0 THEN -1 ELSE OpenGroups(Tail(size), depth - 1)
  ELSE OpenGroups(Tail(size), depth)

\* new RegExp(...) of a pattern the size is pasted into throws a SyntaxError:
\* the size is not escaped, and an unbalanced parenthesis in it leaves the
\* pattern with an unterminated or an unmatched group.
RegExpSyntaxError(size) == OpenGroups(size, 0) # 0

\* enhancedSizeMatch(variantTitle, requestedSize), for a size whose patterns
\* compile: sizePatterns.some(pattern => pattern.test(variantTitle))
enhancedSizeMatch(variantTitle, requestedSize) ==
  \/ SizeAtEnd(variantTitle, requestedSize)
  \/ SizeInMiddle(variantTitle, requestedSize)
  \/ SizeAtStart(variantTitle, requestedSize)
  \/ SizeAsWord(variantTitle, requestedSize)

\* Array.prototype.filter
Filter(seq, Keep(_)) == SelectSeq(seq, Keep)

\* includeColors.toLowerCase().split(',').map(c => c.trim())
\*   .filter(c => c.length > 0).map(color => normalizeColorName(color))
ParseColors(includeColors) ==
  LET nonEmpty(c) == Len(c) > 0
  IN  Map(normalizeColorName,
          Filter(Map(trim, split(toLowerCase(includeColors))), nonEmpty))

\* includeSizes.toUpperCase().split(',').map(s => s.trim()).filter(s => s.length > 0)
ParseSizes(includeSizes) ==
  LET nonEmpty(s) == Len(s) > 0
  IN  Filter(Map(trim, split(toUpperCase(includeSizes))), nonEmpty)

\* The catalog the variant lists are drawn from: titles and costs (in cents).
TitlePool ==
  <<[title |-> <<"W", "h", "i", "t", "e", " ", "/", " ", "S">>, cost |-> 1200],
    [title |-> <<"W", "h", "i", "t", "e", " ", "/", " ", "M">>, cost |-> 1200],
    [title |-> <<"B", "l", "a", "c", "k", " ", "/", " ", "L">>, cost |-> 1250],
    [title |-> <<"N", "a", "v", "y", " ", "/", " ", "L">>, cost |-> 1250],
    [title |-> <<"L", "i", "g", "h", "t", " ", "B", "l", "u", "e", " ", "/", " ", "X", "L">>, cost |-> 1400],
    [title |-> <<"H", "e", "a", "t", "h", "e", "r", " ", "G", "r", "e", "y", " ", "/", " ", "2", "X", "L">>, cost |-> 1600]>>

\* Values of the tool's includeColors argument.
ColorInputs ==
  {<<"w", "h", "i", "t", "e">>,
   <<"w", "h", "i", "t", "e", ",", "b", "l", "a", "c", "k">>,
   <<"p", "u", "r", "p", "l", "e">>,
   <<>>,
   <<"N", "a", "v", "y", " ", "B", "l", "u", "e">>}

\* Values of the tool's includeSizes argument.
SizeInputs ==
  {<<"M">>,
   <<"X", "L">>,
   <<"3", "X", "L">>,
   <<>>,
   <<"M", ",", "L", ",", "X", "L", ",", "2", "X", "L">>,
   <<"M", ",", "L", ")">>,
   <<".", "X", "L">>}

\* requestedSizes.some(size => enhancedSizeMatch(title, size)) throws: some
\* calls enhancedSizeMatch on the sizes in order until one matches, and the
\* call throws on a size whose patterns do not compile.
SizesThrow(title, requestedSizes) ==
  \E i \in 1..Len(requestedSizes) :
    /\ RegExpSyntaxError(requestedSizes[i])
    /\ \A j \in 1..(i - 1) :
         /\ ~RegExpSyntaxError(requestedSizes[j])
         /\ ~enhancedSizeMatch(title, requestedSizes[j])

\* requestedSizes.some(size => enhancedSizeMatch(title, size)), when it does
\* not throw.
SizesMatch(title, requestedSizes) ==
  \E i \in 1..Len(requestedSizes) :
    /\ ~RegExpSyntaxError(requestedSizes[i])
    /\ enhancedSizeMatch(title, requestedSizes[i])
    /\ \A j \in 1..(i - 1) : ~RegExpSyntaxError(requestedSizes[j])

\* requestedColors.some(color => enhancedColorMatch(title, color))
ColorsMatch(title, requestedColors) ==
  \E i \in 1..Len(requestedColors) : enhancedColorMatch(title, requestedColors[i])

\* One consulted rung of the fallback ladder and what it matched.
Rung(tier, matched) == [tier |-> tier, matched |-> matched]

\* "Filter variants with enhanced matching":
\* allVariants.filter(v => hasRequestedColor && hasRequestedSize)
ExactTier(allVariants, requestedColors, requestedSizes) ==
  LET keep(v) ==
        /\ Len(requestedColors) = 0 \/ ColorsMatch(v.title, requestedColors)
        /\ Len(requestedSizes) = 0 \/ SizesMatch(v.title, requestedSizes)
  IN  Filter(allVariants, keep)

\* The filter above throws: hasRequestedSize is computed for every variant.
ExactTierThrows(allVariants, requestedSizes) ==
  \E i \in 1..Len(allVariants) : SizesThrow(allVariants[i].title, requestedSizes)

\* "Fallback 1: Try colors only (ignore sizes)", with the sizes still required
ColorOnlyTierWithSizes(allVariants, requestedColors, requestedSizes) ==
  ExactTier(allVariants, requestedColors, requestedSizes)

\* "Fallback 1: Try colors only (ignore sizes)"
ColorOnlyTier(allVariants, requestedColors, requestedSizes) ==
  LET keep(v) == ColorsMatch(v.title, requestedColors)
  IN  Filter(allVariants, keep)

\* "Fallback 2: Try common color/size combinations"
CommonTier(allVariants) ==
  LET keep(v) ==
        LET title == toLowerCase(v.title)
        IN  /\ \E i \in 1..Len(commonColors) : includes(title, commonColors[i])
            /\ \E i \in 1..Len(commonSizes) : enhancedSizeMatch(v.title, commonSizes[i])
  IN  Filter(allVariants, keep)

\* const fallbackCount = Math.min(5, allVariants.length), with 5 forgotten
fallbackCountAll(length) == length

\* const fallbackCount = Math.min(5, allVariants.length)
fallbackCount(length) == Min(5, length)

\* "Fallback 3": allVariants.slice(0, fallbackCount)
FirstNTier(allVariants) == SubSeq(allVariants, 1, fallbackCount(Len(allVariants)))

\* The ladder with "Fallback 2" consulted although the exact filter matched
LadderEager(allVariants, requestedColors, requestedSizes) ==
  LET exact == ExactTier(allVariants, requestedColors, requestedSizes)
      common == CommonTier(allVariants)
  IN  [filteredVariants |-> IF Len(common) # 0 THEN common ELSE exact,
       rungs |-> <<Rung("Exact", exact), Rung("CommonFallback", common)>>]

\* From `let filteredVariants = allVariants.filter(...)` to the end of the
\* "Progressive fallback strategy", when the exact filter does not throw:
\* the final filteredVariants, and the rungs consulted, in order, each with
\* what it matched.
Ladder(allVariants, requestedColors, requestedSizes) ==
  LET exact == ExactTier(allVariants, requestedColors, requestedSizes)
      colorOnly == ColorOnlyTier(allVariants, requestedColors, requestedSizes)
      afterColor == IF Len(requestedColors) > 0 THEN colorOnly ELSE exact
      rungsColor ==
        <<Rung("Exact", exact)>>
          \o (IF Len(requestedColors) > 0 THEN <<Rung("ColorOnly", colorOnly)>> ELSE <<>>)
      common == CommonTier(allVariants)
      afterCommon == IF Len(afterColor) = 0 THEN common ELSE afterColor
      rungsCommon ==
        rungsColor
          \o (IF Len(afterColor) = 0 THEN <<Rung("CommonFallback", common)>> ELSE <<>>)
      firstN == FirstNTier(allVariants)
      afterFirstN == IF Len(afterCommon) = 0 THEN firstN ELSE afterCommon
      rungsFirstN ==
        rungsCommon \o (IF Len(afterCommon) = 0 THEN <<Rung("FirstN", firstN)>> ELSE <<>>)
  IN  IF Len(exact) = 0
        THEN [filteredVariants |-> afterFirstN, rungs |-> rungsFirstN]
        ELSE [filteredVariants |-> exact, rungs |-> <<Rung("Exact", exact)>>]


\* ----------------------------------------------------------------- pricing

\* A JavaScript number that is not an integer count is kept in fixed point,
\* as a count of 1/Scale: a margin 0.5 is Num(5000). NaN is what parseFloat
\* gives for a string without a number.
Scale == 100 * 100
Num(v) == [nan |-> FALSE, v |-> v]
NaN == [nan |-> TRUE, v |-> 0]

\* profitMargin: number | string
NumberArg(v) == [type |-> "number", s |-> <<>>, v |-> v]
StringArg(s) == [type |-> "string", s |-> s, v |-> 0]

\* profitMargin.replace('%', ''): the first "%" is taken out.
replacePercent(s) ==
  IF \E i \in 1..Len(s) : s[i] = "%"
    THEN LET i == CHOOSE i \in 1..Len(s) :
                    s[i] = "%" /\ \A j \in 1..(i - 1) : s[j] # "%"
         IN  SubSeq(s, 1, i - 1) \o SubSeq(s, i + 1, Len(s))
    ELSE s

\* The decimal digits, and the value of a string of digits.
DigitSeq == <<"0", "1", "2", "3", "4", "5", "6", "7", "8", "9">>
DigitValue(c) == (CHOOSE i \in 1..10 : DigitSeq[i] = c) - 1
RECURSIVE Decimal(_)
Decimal(s) ==
  IF s = <<>> THEN 0
  ELSE 10 * Decimal(SubSeq(s, 1, Len(s) - 1)) + DigitValue(s[Len(s)])

\* The number of digits s begins with.
RECURSIVE DigitRun(_)
DigitRun(s) ==
  IF s # <<>> /\ s[1] \in DigitChars THEN 1 + DigitRun(Tail(s)) ELSE 0

\* The value of the digits after the decimal point, in 1/Scale (the digits
\* past the fourth are dropped).
Fraction(s) == Decimal(SubSeq(s \o <<"0", "0", "0", "0">>, 1, 4))

\* String.prototype.trimStart, as parseFloat applies it
RECURSIVE trimStart(_)
trimStart(s) == IF s # <<>> /\ IsSpace(s[1]) THEN trimStart(Tail(s)) ELSE s

\* parseFloat(string): the longest prefix, after leading white space, that is
\* a decimal literal (sign, digits, point, digits); NaN when there is none.
\* What follows the prefix is ignored. Exponents and "Infinity" are not
\* modelled.
parseFloat(string) ==
  LET s == trimStart(string)
      signed == s # <<>> /\ s[1] \in {"+", "-"}
      t == IF signed THEN Tail(s) ELSE s
      n == DigitRun(t)
      rest == SubSeq(t, n + 1, Len(t))
      f == IF rest # <<>> /\ rest[1] = "." THEN DigitRun(Tail(rest)) ELSE 0
      magnitude ==
        Decimal(SubSeq(t, 1, n)) * Scale
          + (IF f > 0 THEN Fraction(SubSeq(rest, 2, f + 1)) ELSE 0)
  IN  IF n = 0 /\ f = 0 THEN NaN
      ELSE Num(IF signed /\ s[1] = "-" THEN 0 - magnitude ELSE magnitude)

\* x / 100 (exact on the numbers of the model, which have two decimals at
\* most before the division).
Div100(x) == IF x.nan THEN NaN ELSE Num(x.v \div 100)

\* Margin, with a string's number divided by 100 a second time
MarginPercentTwice(profitMargin) ==
  LET margin ==
        IF profitMargin.type = "string"
          THEN Div100(Div100(parseFloat(replacePercent(profitMargin.s))))
          ELSE Num(profitMargin.v)
  IN  IF ~margin.nan /\ margin.v > Scale THEN Div100(margin) ELSE margin

\* let margin = typeof profitMargin === 'string' ? ... : profitMargin;
\* if (margin > 1) { margin = margin / 100; }
Margin(profitMargin) ==
  LET margin ==
        IF profitMargin.type = "string"
          THEN Div100(parseFloat(replacePercent(profitMargin.s)))
          ELSE Num(profitMargin.v)
  IN  IF ~margin.nan /\ margin.v > Scale THEN Div100(margin) ELSE margin

\* Math.round(num / den) for den > 0, in exact arithmetic:
\* floor(num / den + 1/2).
MathRound(num, den) == (2 * num + den) \div (2 * den)

\* What calculatePricing returns: { price, profit }, both finite integers,
\* both Infinity, or both NaN.
Finite(price, profit) == [kind |-> "finite", price |-> price, profit |-> profit]
NotFinite(kind) == [kind |-> kind, price |-> 0, profit |-> 0]
NoPrice == NotFinite("none")

\* baseCost / (1 - margin) is a division of IEEE doubles, and so is the
\* subtraction: where the exact quotient is a tie, the double quotient can
\* lie just below it, and Math.round then gives the integer below. Of the
\* ties among the arguments of the model (margins 0.2 and 0.44, base costs
\* up to 40) these are the ones where it does: 1 - 0.44 is the double
\* 0.56000000000000005329, and 7 / (1 - 0.44) is 12.499999999999998, 21 /
\* (1 - 0.44) is 37.49999999999999, 35 / (1 - 0.44) is 62.49999999999999. The
\* ties at margin 0.2 (2.5, 7.5, ..., 1562.5) are exact in doubles.
BelowTie == {<<7, 4400>>, <<21, 4400>>, <<35, 4400>>}

\* calculatePricing with Math.floor in the place of Math.round
PricingTruncated(cost, margin) ==
  IF margin.nan \/ margin.v >= Scale
    THEN NotFinite("NaN")
    ELSE Finite((cost * Scale) \div (Scale - margin.v),
                (cost * Scale) \div (Scale - margin.v) - cost)

\* const price = Math.round(baseCost / (1 - margin));
\* const profit = price - baseCost;
\* NaN for a margin NaN and for 0 / 0, Infinity for a margin 1.
Pricing(cost, margin) ==
  LET den == Scale - margin.v
      num == cost * Scale
      below == IF <<cost, margin.v>> \in BelowTie THEN 1 ELSE 0
      price ==
        IF den > 0
          THEN MathRound(num, den) - below
          ELSE MathRound(0 - num, 0 - den)
  IN  IF margin.nan \/ (den = 0 /\ cost = 0) THEN NotFinite("NaN")
      ELSE IF den = 0 THEN NotFinite("Infinity")
      ELSE Finite(price, price - cost)

\* The arguments calculatePricing is called with: costs in cents, margins as
\* numbers (0, 0.2, 0.3, 0.44, 0.5, 0.99, 1, 1.5, 50, 150) and as strings.
BaseCosts == (0..MaxBaseCost) \cup {1200, 1250}
MarginNumbers ==
  {NumberArg(v) : v \in {0, 2000, 3000, 4400, 5000, 9900, Scale, 15000,
                         50 * Scale, 150 * Scale}}
MarginStrings ==
  {StringArg(s) : s \in
     {<<"5", "0", "%">>, <<"5", "0">>, <<"0", ".", "5">>, <<"4", "4", "%">>,
      <<"2", "0", "%">>, <<" ", "3", "0", " ", "%">>, <<"1", "0", "0", "%">>,
      <<"1", "5", "0", "%">>, <<"a", "b", "c">>, <<>>, <<"%">>,
      <<"5", "0", "%", "%">>}}
ProfitMargins == MarginNumbers \cup MarginStrings

VARIABLES
  ppc,           \* calculatePricing: called, or returned
  baseCost,      \* its arguments
  profitMargin,
  margin,        \* its local margin at the return
  pricing,       \* what it returned
  earlier        \* the call before this one: its arguments and what it returned

priceVars == <<ppc, baseCost, profitMargin, margin, pricing, earlier>>

\* A call of calculatePricing and its result; no call.
Priced(cost, arg, result) == [baseCost |-> cost, profitMargin |-> arg, pricing |-> result]
NoEarlier == Priced(0, NumberArg(0), NoPrice)

\* No call of calculatePricing.
NoPricing ==
  /\ ppc = "none"
  /\ baseCost = 0
  /\ profitMargin = NumberArg(0)
  /\ margin = Num(0)
  /\ pricing = NoPrice
  /\ earlier = NoEarlier

\* calculatePricing is called with some arguments.
InitPricing ==
  /\ ppc = "called"
  /\ baseCost \in BaseCosts
  /\ profitMargin \in ProfitMargins
  /\ margin = Num(0)
  /\ pricing = NoPrice
  /\ earlier = NoEarlier

\* calculatePricing(baseCost, profitMargin)
calculatePricing ==
  /\ ppc = "called"
  /\ ppc' = "returned"
  /\ margin' = Margin(profitMargin)
  /\ pricing' = Pricing(baseCost, Margin(profitMargin))
  /\ UNCHANGED <<baseCost, profitMargin, earlier>>

\* calculatePricing is called again, for the same base cost and with any
\* margin.
CallPricingAgain ==
  /\ ppc = "returned"
  /\ ppc' = "called"
  /\ earlier' = Priced(baseCost, profitMargin, pricing)
  /\ UNCHANGED baseCost
  /\ profitMargin' \in ProfitMargins
  /\ margin' = Num(0)
  /\ pricing' = NoPrice

\* ------------------------------------------------------ the matching step

\* profitMargin: z.string().optional().default("50%")
DefaultMargin == StringArg(<<"5", "0", "%">>)

\* Values of the tool's profitMargin argument.
SimpleMargins ==
  {DefaultMargin, StringArg(<<"3", "0", " ", "%">>),
   StringArg(<<"1", "0", "0", "%">>)}

\* A JavaScript number made of what calculatePricing returned.
PriceOf(p) == [kind |-> p.kind, v |-> p.price]

\* The priced variants, every one priced from the cost of the first
PricedVariantsFirstCost(matched, marginArg) ==
  [i \in 1..Len(matched) |->
     [variantId |-> matched[i].id,
      price |-> PriceOf(Pricing(matched[1].cost, Margin(marginArg))),
      isEnabled |-> TRUE]]

\* const variants = filteredVariants.map((v) => { const pricing =
\*   calculatePricing(v.cost, profitMargin);
\*   return { variantId: v.id, price: pricing.price, isEnabled: true } })
PricedVariants(matched, marginArg) ==
  [i \in 1..Len(matched) |->
     [variantId |-> matched[i].id,
      price |-> PriceOf(Pricing(matched[i].cost, Margin(marginArg))),
      isEnabled |-> TRUE]]

VARIABLES
  mpc,               \* create-product-simple: fetched (the variants are there),
                     \* matched (STEP 5 is through), threw, or none
  allVariants,       \* variantsData.variants
  includeColors,     \* the tool's arguments
  includeSizes,
  requestedColors,   \* the parsed arguments
  requestedSizes,
  filteredVariants,  \* the matched variants
  rungs,             \* the rungs consulted and what each matched
  matchError,        \* the name of the error STEP 5 threw, or ""
  simpleMargin,      \* the tool's argument profitMargin
  variants           \* the priced variants of the product to create

matchVars ==
  <<mpc, allVariants, includeColors, includeSizes, requestedColors,
    requestedSizes, filteredVariants, rungs, matchError, simpleMargin, variants>>

IsSorted(s) == \A i \in 1..(Len(s) - 1) : s[i] <= s[i + 1]

\* The variant lists STEP 5 is run on: not empty (an empty list throws in
\* STEP 4), of at most MaxVariants entries of the pool; in any order up to
\* MaxAnyOrder entries, in the pool's order beyond.
VariantIndexLists ==
  {s \in UNION {[1..n -> 1..Len(TitlePool)] : n \in 1..MaxVariants} :
     Len(s) <= MaxAnyOrder \/ IsSorted(s)}

\* The variants of a list: the ids are the places.
VariantsOf(s) ==
  [i \in 1..Len(s) |-> [id |-> i, title |-> TitlePool[s[i]].title,
                        cost |-> TitlePool[s[i]].cost]]

NoMatching ==
  /\ mpc = "none"
  /\ allVariants = <<>>
  /\ includeColors = <<>>
  /\ includeSizes = <<>>
  /\ requestedColors = <<>>
  /\ requestedSizes = <<>>
  /\ filteredVariants = <<>>
  /\ rungs = <<>>
  /\ matchError = ""
  /\ simpleMargin = DefaultMargin
  /\ variants = <<>>

InitMatch ==
  /\ mpc = "fetched"
  /\ allVariants \in {VariantsOf(s) : s \in VariantIndexLists}
  /\ includeColors \in ColorInputs
  /\ includeSizes \in SizeInputs
  /\ requestedColors = <<>>
  /\ requestedSizes = <<>>
  /\ filteredVariants = <<>>
  /\ rungs = <<>>
  /\ matchError = ""
  /\ simpleMargin = DefaultMargin
  /\ variants = <<>>

\* create-product-simple, from "STEP 5: Enhanced variant filtering with
\* improved matching" to the priced variants: synchronous code, one step.
\* A SyntaxError leaves the handler through its catch block with nothing
\* matched. list is variantsData.variants.
MatchOn(list) ==
  /\ allVariants' = list
  /\ LET colors == ParseColors(includeColors)
         sizes == ParseSizes(includeSizes)
     IN  /\ requestedColors' = colors
         /\ requestedSizes' = sizes
         /\ IF ExactTierThrows(list, sizes)
              THEN /\ mpc' = "threw"
                   /\ matchError' = "SyntaxError"
                   /\ UNCHANGED <<filteredVariants, rungs, variants>>
              ELSE LET l == Ladder(list, colors, sizes)
                   IN  /\ mpc' = "matched"
                       /\ filteredVariants' = l.filteredVariants
                       /\ rungs' = l.rungs
                       /\ variants' = PricedVariants(l.filteredVariants, simpleMargin)
                       /\ UNCHANGED matchError
  /\ UNCHANGED <<includeColors, includeSizes, simpleMargin>>

\* The same code, run on the variants that are there.
MatchVariants ==
  /\ mpc = "fetched"
  /\ MatchOn(allVariants)

\* ---------------------------------------------------------------- sessions

\* const sessionTimeout = 60 * 60 * 1000
sessionTimeout == 60 * 60 * 1000

\* setInterval(..., 30 * 60 * 1000)
cleanupInterval == 30 * 60 * 1000

\* The step of the server's clock: ten minutes.
Quantum == cleanupInterval \div 3

\* The API keys of a request body: none, one the upstream accepts, one it
\* rejects.
NoApiKey == ""
ApiKeys == {NoApiKey, "valid", "invalid"}

\* What initialize() comes to: the shops of the account (some, or none), or
\* the error of makeRequest('/shops.json').
InitializeOutcomes(key) ==
  IF key = "valid" THEN {"shops", "noShops", "throws"} ELSE {"throws"}

\* The shop the client selects in initialize: the first shop when it has no
\* shop and there is one.
InitializedShop(shop, outcome) ==
  IF shop = "" /\ outcome = "shops" THEN "shop1" ELSE shop

\* A UserSession, with the shop of its client.
UserSession(key, shop, at) ==
  [printifyApiKey |-> key, shopId |-> shop, lastAccessed |-> at]

\* The requests: the route, the user id of the path, the key of the body,
\* the status and JSON-RPC error code of the response, and the session whose
\* server handled the request (0: none).
Request(pc, route, userId, key) ==
  [pc |-> pc, route |-> route, userId |-> userId, printifyApiKey |-> key,
   status |-> 0, code |-> 0, servedBy |-> 0]

NoRequest == Request("idle", "none", 0, NoApiKey)

\* res.status(status).json(...)
Answer(r, status, code) ==
  [r EXCEPT !.pc = "done", !.status = status, !.code = code]

SessionNotFound == 0 - 32001
InternalError == 0 - 32603

VARIABLES
  userSessions,   \* the session map: user id -> UserSession
  serverNow,      \* Date.now() of the server
  cleanupAt,      \* when the cleanup timer fires next
  req,            \* the request being handled
  registered      \* how many user ids were generated

sessionVars == <<userSessions, serverNow, cleanupAt, req, registered>>

\* The server without a request: an empty map, the timer set.
InitSessions ==
  /\ userSessions = << >>
  /\ serverNow = 0
  /\ cleanupAt = cleanupInterval
  /\ req = NoRequest
  /\ registered = 0

\* userSessions.set(userId, session)
SetSession(sessions, userId, session) ==
  [u \in DOMAIN sessions \cup {userId} |->
     IF u = userId THEN session ELSE sessions[u]]

\* The sessions the cleanup deletes.
Expired(sessions, t) ==
  {u \in DOMAIN sessions : t - sessions[u].lastAccessed > sessionTimeout}

\* A request arrives.
Arrive(route, userId, key) ==
  /\ req.pc \in {"idle", "done"}
  /\ req' = Request("arrived", route, userId, key)
  /\ UNCHANGED <<userSessions, serverNow, cleanupAt, registered>>

\* app.all('/api/mcp/a/:userId/mcp'), to the await of the recovery or to the
\* server created for the session.
McpRequest ==
  /\ req.pc = "arrived"
  /\ req.route = "mcp"
  /\ IF req.userId \notin DOMAIN userSessions
       THEN /\ req' = Answer(req, 404, SessionNotFound)
            /\ UNCHANGED userSessions
       ELSE /\ userSessions' =
                 [userSessions EXCEPT ![req.userId].lastAccessed = serverNow]
            /\ IF userSessions[req.userId].shopId = ""
                 THEN req' = [req EXCEPT !.pc = "recovering"]
                 ELSE req' = [Answer(req, 200, 0) EXCEPT !.servedBy = req.userId]
  /\ UNCHANGED <<serverNow, cleanupAt, registered>>

\* Session recovery: await session.printifyClient.initialize() returns or
\* throws. The client is the session's, also when the cleanup has deleted
\* the session from the map meanwhile.
McpRecover(outcome) ==
  /\ req.pc = "recovering"
  /\ IF outcome = "throws"
       THEN /\ req' = Answer(req, 500, InternalError)
            /\ UNCHANGED userSessions
       ELSE /\ req' = [Answer(req, 200, 0) EXCEPT !.servedBy = req.userId]
            /\ userSessions' =
                 IF req.userId \in DOMAIN userSessions
                   THEN [userSessions EXCEPT ![req.userId].shopId =
                           InitializedShop(@, outcome)]
                   ELSE userSessions
  /\ UNCHANGED <<serverNow, cleanupAt, registered>>

\* app.post('/api/test-connection'), with a session stored for the key
\* that connects.
TestConnectionStoring(outcome) ==
  /\ req.pc \in {"arrived", "initializing"}
  /\ req.route = "test"
  /\ IF req.pc = "arrived"
       THEN /\ req' = IF req.printifyApiKey = NoApiKey
                        THEN Answer(req, 400, 0)
                        ELSE [req EXCEPT !.pc = "initializing"]
            /\ UNCHANGED userSessions
       ELSE /\ req' = Answer(req, IF outcome = "throws" THEN 400 ELSE 200, 0)
            /\ userSessions' =
                 IF outcome = "throws" THEN userSessions
                 ELSE SetSession(userSessions, registered + 1,
                        UserSession(req.printifyApiKey,
                                    InitializedShop("", outcome), serverNow))
  /\ UNCHANGED <<serverNow, cleanupAt, registered>>

\* app.post('/api/test-connection'): the key is missing, or the client is
\* constructed and initialize awaited; then initialize returns or throws.
TestConnection(outcome) ==
  /\ req.pc \in {"arrived", "initializing"}
  /\ req.route = "test"
  /\ IF req.pc = "arrived"
       THEN req' = IF req.printifyApiKey = NoApiKey
                     THEN Answer(req, 400, 0)
                     ELSE [req EXCEPT !.pc = "initializing"]
       ELSE req' = Answer(req, IF outcome = "throws" THEN 400 ELSE 200, 0)
  /\ UNCHANGED <<userSessions, serverNow, cleanupAt, registered>>

\* app.post('/api/register'), with the session stored before initialize
\* has returned
RegisterStoringFirst(outcome) ==
  /\ req.pc \in {"arrived", "initializing"}
  /\ req.route = "register"
  /\ IF req.pc = "arrived"
       THEN /\ req' = IF req.printifyApiKey = NoApiKey
                        THEN Answer(req, 400, 0)
                        ELSE [req EXCEPT !.pc = "initializing"]
            /\ UNCHANGED <<userSessions, registered>>
       ELSE /\ registered' = registered + 1
            /\ userSessions' =
                 SetSession(userSessions, registered + 1,
                   UserSession(req.printifyApiKey,
                               InitializedShop("", outcome), serverNow))
            /\ req' = IF outcome = "throws"
                        THEN Answer(req, 400, 0)
                        ELSE [Answer(req, 200, 0) EXCEPT !.userId = registered + 1]
  /\ UNCHANGED <<serverNow, cleanupAt>>

\* app.post('/api/register'): the key is missing, or the client is
\* constructed and initialize awaited; then initialize throws, or a user id
\* is generated and the session stored.
Register(outcome) ==
  /\ req.pc \in {"arrived", "initializing"}
  /\ req.route = "register"
  /\ IF req.pc = "arrived"
       THEN /\ req' = IF req.printifyApiKey = NoApiKey
                        THEN Answer(req, 400, 0)
                        ELSE [req EXCEPT !.pc = "initializing"]
            /\ UNCHANGED <<userSessions, registered>>
       ELSE IF outcome = "throws"
         THEN /\ req' = Answer(req, 400, 0)
              /\ UNCHANGED <<userSessions, registered>>
         ELSE /\ registered' = registered + 1
              /\ userSessions' =
                   SetSession(userSessions, registered + 1,
                     UserSession(req.printifyApiKey,
                                 InitializedShop("", outcome), serverNow))
              /\ req' = [Answer(req, 200, 0) EXCEPT !.userId = registered + 1]
  /\ UNCHANGED <<serverNow, cleanupAt>>

\* The callback of setInterval: every session idle for more than the
\* timeout is deleted.
CleanupSessions ==
  /\ serverNow >= cleanupAt
  /\ userSessions' =
       [u \in DOMAIN userSessions \ Expired(userSessions, serverNow) |->
          userSessions[u]]
  /\ cleanupAt' = cleanupAt + cleanupInterval
  /\ UNCHANGED <<serverNow, req, registered>>

\* Time passes, up to the next thing the timer has to do; none passes between
\* the arrival of a request and the first statement of its handler.
PassTime ==
  /\ req.pc # "arrived"
  /\ serverNow < cleanupAt
  /\ serverNow < MaxQuanta * Quantum
  /\ serverNow' = serverNow + Quantum
  /\ UNCHANGED <<userSessions, cleanupAt, req, registered>>

\* ------------------------------------------------------------------- state

VARIABLES
  call,            \* per caller: the locals of its call chain (see IdleCall)
  blueprintCache,  \* PrintifyAPI.blueprintCache: key -> entry
  now,             \* Date.now()
  ticks,           \* clock steps taken
  calls,           \* client operations started
  lastPut,         \* per key: the last setCache(key, data) and its time
  shopId           \* PrintifyAPI.shopId

clientVars == <<call, blueprintCache, now, ticks, calls, lastPut, shopId>>

VARIABLES
  tool             \* the handler of create-product-simple (see IdleTool)

toolVars == <<tool>>

\* The locals of the handler of create-product-simple.
\*   pc          where it stands: idle, blueprint, providers, variants,
\*               creating (awaiting that operation of the client), done
\*   blueprintId its argument
\*   log         the operations of the client it has called, in order
\*   results     what the operations it awaited gave it, in order
\*   isError     it returned the result of its catch block, isError: true
\*   error       the statement that threw
IdleTool ==
  [pc |-> "idle", blueprintId |-> 0, log |-> <<>>, results |-> <<>>,
   isError |-> FALSE, error |-> ""]

\* No call of create-product-simple.
NoTool == tool = IdleTool

\* What the steps of a call chain leave alone.
otherVars == <<shopId, matchVars, priceVars, colorVars, sessionVars, toolVars>>

\* constructor(apiToken, shopId?): the shop id, or none.
NoShop == ""
ShopArgs == {NoShop, "shop1"}

\* Arguments the operations are called with.
BlueprintIds == {5, 77}
Pages == {1}
Limits == {1, 10}

\* getCacheKey(`blueprint:${id}`) and getCacheKey(`blueprints:${page}:${limit}`):
\* the two templates never produce the same string, and each is one-to-one in
\* its numbers, so a key is the triple it is printed from.
BlueprintKey(id) == <<"blueprint", id, 0>>
BlueprintsKey(page, limit) == <<"blueprints", page, limit>>
NoKey == <<"", 0, 0>>
CacheKeys ==
  {BlueprintKey(id) : id \in BlueprintIds}
    \cup {BlueprintsKey(pg, l) : pg \in Pages, l \in Limits}
    \cup {BlueprintsKey(1, 50), BlueprintsKey(1, 20)}

\* A Map entry { data, timestamp }; present = FALSE: the Map has no such key.
Entry(data, timestamp) == [present |-> TRUE, data |-> data, timestamp |-> timestamp]
NoEntry == [present |-> FALSE, data |-> Null, timestamp |-> 0]

\* The locals of one call chain.
\*   pc        where it stands: idle, fetch (awaiting fetch), backoff (asleep
\*             before a retry), pause (asleep between two limits), done
\*   op        the operation called
\*   cacheKey  its cache key; id, page, limit its arguments
\*   limitsToTry, tier   the limits of getBlueprints and the index of the current one
\*   endpoint  the endpoint of the fetcher call in progress
\*   attempt, retries    the fetcher's loop variable and budget
\*   responses the answers the fetcher call in progress got, in order
\*   delays    the delays it slept, in order
\*   requests  HTTP requests issued by the operation
\*   fetches   fetcher calls made by the operation
\*   result    how the operation ended
\*   criteria  searchBlueprints: a category or a type is given
\*   ended     how the last fetcher call of the operation ended
IdleCall ==
  [pc |-> "idle", op |-> "none", cacheKey |-> NoKey, id |-> 0, page |-> 0, limit |-> 0,
   limitsToTry |-> <<>>, tier |-> 0, endpoint |-> NoKey, attempt |-> 0,
   retries |-> 0, responses |-> <<>>, delays |-> <<>>, requests |-> 0,
   fetches |-> 0, result |-> Pending, criteria |-> FALSE, ended |-> Pending]

\* new PrintifyAPI(apiToken, shopId)
ConstructedWith(shop) ==
  /\ call = [p \in Procs |-> IdleCall]
  /\ blueprintCache = [k \in CacheKeys |-> NoEntry]
  /\ now = 0
  /\ ticks = 0
  /\ calls = 0
  /\ lastPut = [k \in CacheKeys |-> NoEntry]
  /\ shopId = shop

\* new PrintifyAPI(apiToken)
InitClient == ConstructedWith(NoShop)

\* ---------------------------------------------------------------- the cache

\* getFromCache(key), with `<` replaced by `<=`
getFromCacheLate(key) ==
  LET cached == blueprintCache[key]
  IN  IF cached.present /\ now - cached.timestamp <= cacheTimeout
        THEN cached.data
        ELSE Null

\* getFromCache(key)
getFromCache(key) ==
  LET cached == blueprintCache[key]
  IN  IF cached.present /\ now - cached.timestamp < cacheTimeout
        THEN cached.data
        ELSE Null

\* setCache(key, data), with the write lost
setCacheDropped(key, data) == blueprintCache

\* setCache(key, data), keeping the entry the key has
setCacheFirstWins(key, data) ==
  IF blueprintCache[key].present
    THEN blueprintCache
    ELSE [blueprintCache EXCEPT ![key] = Entry(data, now)]

\* setCache(key, data): the Map after blueprintCache.set(key, {data, timestamp: Date.now()})
setCache(key, data) == [blueprintCache EXCEPT ![key] = Entry(data, now)]

\* ------------------------------------------------------ the fetcher's steps

\* The first iteration of a fetcher's loop up to `await fetch(url, ...)`.
StartFetch(c, endpoint, retries) ==
  [c EXCEPT !.pc = "fetch", !.endpoint = endpoint, !.attempt = 0,
            !.retries = retries, !.responses = <<>>, !.delays = <<>>,
            !.requests = @ + 1, !.fetches = @ + 1]

\* return / throw of the operation.
Finished(c, res) == [c EXCEPT !.pc = "done", !.result = res]

\* The endpoint `/catalog/blueprints.json?page=${page}&limit=${currentLimit}`.
ListEndpoint(page, currentLimit) == <<"blueprints", page, currentLimit>>

\* limitsToTry without its middle limit
LimitsToTryTwo(limit) == <<Min(limit, 5), 1>>

\* const limitsToTry = [Math.min(limit, 5), 3, 1]
LimitsToTry(limit) == <<Min(limit, 5), 3, 1>>

\* The operations that list blueprints through getBlueprints, and the
\* operations on the products of the shop.
ListOps == {"getBlueprints", "searchBlueprints", "getPopularBlueprints"}
ProductOps == {"createProduct", "updateProduct", "deleteProduct", "publishProduct"}

\* searchBlueprints: "Create fallback response with searchable data"
searchFallback == Json("searchFallback", TRUE, 0, 0)

\* getPopularBlueprints: "Return curated popular list with correct data"
curatedPopular == [Json("curatedPopular", TRUE, 0, 0) EXCEPT !._popular = TRUE]

\* What the operation of c makes of the end res of its last inner call.
\*   searchBlueprints: getBlueprints(1, 50) in a try block whose catch takes
\*     every error; without blueprints, the fallback list; without criteria
\*     the blueprints as they are, else a copy { ...allBlueprints, data:
\*     filteredData, total, _filtered: true }.
\*   getPopularBlueprints: getBlueprints(1, 20) in a try block whose catch
\*     returns the curated list; else a copy { ...allBlueprints, data, total,
\*     _popular: true }.
\*   deleteProduct: `await this.makeRequest(...)` and no return value.
\*   the others: `return this.makeRequest(...)`, or the end of getBlueprints
\*     or getBlueprint itself.
OpResult(c, res) ==
  IF c.op = "searchBlueprints"
    THEN LET allBlueprints ==
               IF res.t = "throw" \/ ~Truthy(res.data) THEN searchFallback ELSE res.data
         IN  Return(IF c.criteria
                      THEN [allBlueprints EXCEPT !._filtered = TRUE]
                      ELSE allBlueprints)
  ELSE IF c.op = "getPopularBlueprints"
    THEN IF res.t = "throw"
           THEN Return(curatedPopular)
           ELSE Return([res.data EXCEPT !._popular = TRUE])
  ELSE IF c.op = "deleteProduct" /\ res.t = "return"
    THEN Return(Null)
  ELSE res

\* getBlueprints: the next turn of `for (const currentLimit of limitsToTry)`,
\* or, past the last limit, the return of fallbackBlueprints.
NextLimit(c) ==
  IF c.tier < Len(c.limitsToTry)
    THEN StartFetch([c EXCEPT !.tier = @ + 1],
                    ListEndpoint(c.page, c.limitsToTry[c.tier + 1]), DefaultRetries)
    ELSE Finished(c, OpResult(c, Return(FallbackCatalog(c.page, c.limit))))

\* getBlueprints(page, limit) up to its first await, called by the operation
\* of c0.
EnterGetBlueprints(c0, page, limit) ==
  LET cacheKey == BlueprintsKey(page, limit)
      cached == getFromCache(cacheKey)
      c == [c0 EXCEPT !.cacheKey = cacheKey, !.page = page, !.limit = limit,
                      !.limitsToTry = LimitsToTry(limit)]
  IN  IF Truthy(cached) THEN Finished(c, OpResult(c, Return(cached))) ELSE NextLimit(c)

\* A direct call makeRequest(endpoint, options, retries).
CallMakeRequest(p, id, r) ==
  /\ call[p].pc = "idle"
  /\ calls < MaxCalls
  /\ calls' = calls + 1
  /\ call' = [call EXCEPT ![p] =
       StartFetch([IdleCall EXCEPT !.op = "makeRequest"], BlueprintKey(id), r)]
  /\ UNCHANGED <<blueprintCache, now, ticks, lastPut, otherVars>>

\* A direct call makeCatalogRequest(endpoint, options, retries).
CallMakeCatalogRequest(p, page, limit, r) ==
  /\ call[p].pc = "idle"
  /\ calls < MaxCalls
  /\ calls' = calls + 1
  /\ call' = [call EXCEPT ![p] =
       StartFetch([IdleCall EXCEPT !.op = "makeCatalogRequest"],
                  ListEndpoint(page, limit), r)]
  /\ UNCHANGED <<blueprintCache, now, ticks, lastPut, otherVars>>

\* getBlueprint up to its first await, with an expired entry of its key
\* deleted at the lookup
CallGetBlueprintEvicting(p, id) ==
  /\ call[p].pc = "idle"
  /\ calls < MaxCalls
  /\ calls' = calls + 1
  /\ LET cacheKey == BlueprintKey(id)
         cached == getFromCache(cacheKey)
         c == [IdleCall EXCEPT !.op = "getBlueprint", !.cacheKey = cacheKey, !.id = id]
     IN  /\ call' = [call EXCEPT ![p] =
              IF Truthy(cached)
                THEN Finished(c, Return(cached))
                ELSE StartFetch(c, BlueprintKey(id), DefaultRetries)]
         /\ blueprintCache' =
              IF Truthy(cached)
                THEN blueprintCache
                ELSE [blueprintCache EXCEPT ![cacheKey] = NoEntry]
  /\ UNCHANGED <<now, ticks, lastPut, otherVars>>

\* getBlueprint(blueprintId) up to its first await: the locals of the call.
getBlueprint(id) ==
  LET cacheKey == BlueprintKey(id)
      cached == getFromCache(cacheKey)
      c == [IdleCall EXCEPT !.op = "getBlueprint", !.cacheKey = cacheKey, !.id = id]
  IN  IF Truthy(cached)
        THEN Finished(c, Return(cached))
        ELSE StartFetch(c, BlueprintKey(id), DefaultRetries)

\* A caller calls getBlueprint(blueprintId).
CallGetBlueprint(p, id) ==
  /\ call[p].pc = "idle"
  /\ calls < MaxCalls
  /\ calls' = calls + 1
  /\ call' = [call EXCEPT ![p] = getBlueprint(id)]
  /\ UNCHANGED <<blueprintCache, now, ticks, lastPut, otherVars>>

\* getBlueprints(page, limit) up to its first await.
CallGetBlueprints(p, page, limit) ==
  /\ call[p].pc = "idle"
  /\ calls < MaxCalls
  /\ calls' = calls + 1
  /\ call' = [call EXCEPT ![p] =
       EnterGetBlueprints([IdleCall EXCEPT !.op = "getBlueprints"], page, limit)]
  /\ UNCHANGED <<blueprintCache, now, ticks, lastPut, otherVars>>

\* searchBlueprints(category, type) up to its first await.
CallSearchBlueprints(p, criteria) ==
  /\ call[p].pc = "idle"
  /\ calls < MaxCalls
  /\ calls' = calls + 1
  /\ call' = [call EXCEPT ![p] =
       EnterGetBlueprints([IdleCall EXCEPT !.op = "searchBlueprints",
                                          !.criteria = criteria], 1, 50)]
  /\ UNCHANGED <<blueprintCache, now, ticks, lastPut, otherVars>>

\* getPopularBlueprints() up to its first await.
CallGetPopularBlueprints(p) ==
  /\ call[p].pc = "idle"
  /\ calls < MaxCalls
  /\ calls' = calls + 1
  /\ call' = [call EXCEPT ![p] =
       EnterGetBlueprints([IdleCall EXCEPT !.op = "getPopularBlueprints"], 1, 20)]
  /\ UNCHANGED <<blueprintCache, now, ticks, lastPut, otherVars>>

\* getVariants, answering from the blueprint's cache entry when it has one
CallGetVariantsCached(p, id) ==
  /\ call[p].pc = "idle"
  /\ calls < MaxCalls
  /\ calls' = calls + 1
  /\ LET cached == getFromCache(BlueprintKey(id))
         c == [IdleCall EXCEPT !.op = "getVariants", !.id = id]
     IN  call' = [call EXCEPT ![p] =
           IF Truthy(cached)
             THEN Finished(c, Return(cached))
             ELSE StartFetch(c, <<"variants", id, 0>>, DefaultRetries)]
  /\ UNCHANGED <<blueprintCache, now, ticks, lastPut, otherVars>>

\* getPrintProviders(blueprintId) up to its first await.
getPrintProviders(id) ==
  StartFetch([IdleCall EXCEPT !.op = "getPrintProviders", !.id = id],
             <<"print_providers", id, 0>>, DefaultRetries)

\* getVariants(blueprintId, printProviderId) up to its first await.
getVariants(id) ==
  StartFetch([IdleCall EXCEPT !.op = "getVariants", !.id = id],
             <<"variants", id, 0>>, DefaultRetries)

\* A caller calls getVariants(blueprintId, printProviderId).
CallGetVariants(p, id) ==
  /\ call[p].pc = "idle"
  /\ calls < MaxCalls
  /\ calls' = calls + 1
  /\ call' = [call EXCEPT ![p] = getVariants(id)]
  /\ UNCHANGED <<blueprintCache, now, ticks, lastPut, otherVars>>

\* createProduct, updateProduct, deleteProduct, publishProduct up to the
\* first await: `if (!this.shopId) throw new Error(...)`, then makeRequest.
ProductOp(op) ==
  LET c == [IdleCall EXCEPT !.op = op]
  IN  IF shopId = NoShop
        THEN Finished(c, Throw(RawError("Error", "")))
        ELSE StartFetch(c, <<"products", 0, 0>>, DefaultRetries)

\* A caller calls one of them.
CallProductOp(p, op) ==
  /\ call[p].pc = "idle"
  /\ calls < MaxCalls
  /\ calls' = calls + 1
  /\ call' = [call EXCEPT ![p] = ProductOp(op)]
  /\ UNCHANGED <<blueprintCache, now, ticks, lastPut, otherVars>>

\* The sources of an image: a URL, base64 data in a data: URL, a data: URL
\* that does not match /^data:(.+);base64,(.+)$/, and a local file.
ImageSources == {"url", "data", "badData", "file"}

\* uploadImage: `await fetch(`${this.baseUrl}/uploads/images.json`, ...)`,
\* a plain fetch outside the fetchers.
StartUpload(c) == [c EXCEPT !.pc = "upload", !.requests = @ + 1]

\* uploadImage(fileName, source) up to its first await.
CallUploadImage(p, source) ==
  /\ call[p].pc = "idle"
  /\ calls < MaxCalls
  /\ calls' = calls + 1
  /\ LET c == [IdleCall EXCEPT !.op = "uploadImage"]
     IN  call' = [call EXCEPT ![p] =
           IF source = "badData" THEN Finished(c, Throw(RawError("Error", "")))
           ELSE IF source = "file" THEN [c EXCEPT !.pc = "readFile"]
           ELSE StartUpload(c)]
  /\ UNCHANGED <<blueprintCache, now, ticks, lastPut, otherVars>>

\* uploadImage: `await fs.readFile(source)` ends, with the data or an error.
ReadFile(p, ok) ==
  /\ call[p].pc = "readFile"
  /\ call' = [call EXCEPT ![p] =
       IF ok THEN StartUpload(@) ELSE Finished(@, Throw(RawError("Error", "ENOENT")))]
  /\ UNCHANGED <<blueprintCache, now, ticks, calls, lastPut, otherVars>>

\* uploadImage from the answer to its fetch on: a response that is not ok
\* throws a plain Error, an error of fetch or of response.json() passes.
UploadStep(o) ==
  IF o.t = "http" /\ ~ResponseOk(o.status) THEN Throw(RawError("Error", ""))
  ELSE IF o.t = "http" THEN Return(o.body)
  ELSE IF o.t = "neterr" THEN Throw(RawError("FetchError", o.code))
  ELSE Throw(RawError("SyntaxError", ""))

\* uploadImage: its fetch is answered by o (no timer aborts this request).
RespondUpload(p, o) ==
  /\ call[p].pc = "upload"
  /\ o.t # "abort"
  /\ call' = [call EXCEPT ![p] =
       Finished([@ EXCEPT !.responses = Append(@, o)], UploadStep(o))]
  /\ UNCHANGED <<blueprintCache, now, ticks, calls, lastPut, otherVars>>

\* The rest of an operation after its fetcher call, with the list stored
\* only when it was fetched with the limit that was asked for
AfterFetchFullLimitOnly(p, c, res) ==
  IF c.op \in {"getBlueprint"} \cup ListOps /\ res.t = "return"
    THEN /\ blueprintCache' =
              IF c.op = "getBlueprint" \/ c.endpoint[3] = c.limit
                THEN setCache(c.cacheKey, res.data)
                ELSE blueprintCache
         /\ UNCHANGED lastPut
         /\ call' = [call EXCEPT ![p] = Finished(c, OpResult(c, res))]
  ELSE IF c.op \in ListOps /\ res.err.code # AUTH_FAILED
    THEN /\ call' = [call EXCEPT ![p] =
              IF c.limitsToTry[c.tier] > 1
                THEN [c EXCEPT !.pc = "pause"]
                ELSE NextLimit(c)]
         /\ UNCHANGED <<blueprintCache, lastPut>>
  ELSE /\ call' = [call EXCEPT ![p] = Finished(c, OpResult(c, res))]
       /\ UNCHANGED <<blueprintCache, lastPut>>

\* The rest of an operation after its fetcher call, with the fallback
\* catalog stored like fetched data
AfterFetchCachingFallback(p, c, res) ==
  IF c.op \in {"getBlueprint"} \cup ListOps /\ res.t = "return"
    THEN /\ blueprintCache' = setCache(c.cacheKey, res.data)
         /\ lastPut' = [lastPut EXCEPT ![c.cacheKey] = Entry(res.data, now)]
         /\ call' = [call EXCEPT ![p] = Finished(c, OpResult(c, res))]
  ELSE IF c.op \in ListOps /\ res.err.code # AUTH_FAILED
    THEN IF c.limitsToTry[c.tier] > 1
           THEN /\ call' = [call EXCEPT ![p] = [c EXCEPT !.pc = "pause"]]
                /\ UNCHANGED <<blueprintCache, lastPut>>
           ELSE /\ call' = [call EXCEPT ![p] = NextLimit(c)]
                /\ blueprintCache' =
                     IF NextLimit(c).pc = "done"
                       THEN setCache(c.cacheKey, FallbackCatalog(c.page, c.limit))
                       ELSE blueprintCache
                /\ UNCHANGED lastPut
  ELSE /\ call' = [call EXCEPT ![p] = Finished(c, OpResult(c, res))]
       /\ UNCHANGED <<blueprintCache, lastPut>>

\* The fetcher call of c ended in res (a return or a throw): the rest of the
\* operation up to its next await.
\*   makeRequest, makeCatalogRequest: the call itself ends so.
\*   getBlueprint: setCache(cacheKey, result); return result; an error passes.
\*   getBlueprints: the same on a result; on an error, rethrow an AUTH_FAILED,
\*     else sleep 1000 ms when currentLimit > 1, then go on with the next limit.
\*   searchBlueprints, getPopularBlueprints: getBlueprints, then OpResult.
\*   getVariants and the product operations: the end of makeRequest.
AfterFetch(p, c, res) ==
  IF c.op \in {"getBlueprint"} \cup ListOps /\ res.t = "return"
    THEN /\ blueprintCache' = setCache(c.cacheKey, res.data)
         /\ lastPut' = [lastPut EXCEPT ![c.cacheKey] = Entry(res.data, now)]
         /\ call' = [call EXCEPT ![p] = Finished(c, OpResult(c, res))]
  ELSE IF c.op \in ListOps /\ res.err.code # AUTH_FAILED
    THEN /\ call' = [call EXCEPT ![p] =
              IF c.limitsToTry[c.tier] > 1
                THEN [c EXCEPT !.pc = "pause"]
                ELSE NextLimit(c)]
         /\ UNCHANGED <<blueprintCache, lastPut>>
  ELSE /\ call' = [call EXCEPT ![p] = Finished(c, OpResult(c, res))]
       /\ UNCHANGED <<blueprintCache, lastPut>>

\* The answer to `await fetch(...)`, with the failure of the first attempt
\* thrown when the budget is used up
RespondFirstFailure(p, o) ==
  /\ call[p].pc = "fetch"
  /\ LET c == [call[p] EXCEPT !.responses = Append(@, o)]
         last == AttemptStep(o, c.attempt, c.retries)
         step == IF last.t = "throw"
                   THEN AttemptStep(c.responses[1], c.attempt, c.retries)
                   ELSE last
     IN  IF step.t = "retry"
           THEN /\ call' = [call EXCEPT ![p] =
                     [c EXCEPT !.pc = "backoff", !.delays = Append(@, step.delay)]]
                /\ UNCHANGED <<blueprintCache, lastPut>>
           ELSE AfterFetch(p, [c EXCEPT !.ended = step], step)
  /\ UNCHANGED <<now, ticks, calls, otherVars>>

\* The answer to `await fetch(...)`, held back while another call sleeps
RespondBlocking(p, o) ==
  /\ call[p].pc = "fetch"
  /\ \A q \in Procs \ {p} : call[q].pc \notin {"backoff", "pause"}
  /\ LET c == [call[p] EXCEPT !.responses = Append(@, o)]
         step == AttemptStep(o, c.attempt, c.retries)
     IN  IF step.t = "retry"
           THEN /\ call' = [call EXCEPT ![p] =
                     [c EXCEPT !.pc = "backoff", !.delays = Append(@, step.delay)]]
                /\ UNCHANGED <<blueprintCache, lastPut>>
           ELSE AfterFetch(p, [c EXCEPT !.ended = step], step)
  /\ UNCHANGED <<now, ticks, calls, otherVars>>

\* `await fetch(...)` is answered by o: the iteration's rest.
Respond(p, o) ==
  /\ call[p].pc = "fetch"
  /\ LET c == [call[p] EXCEPT !.responses = Append(@, o)]
         step == AttemptStep(o, c.attempt, c.retries)
     IN  IF step.t = "retry"
           THEN /\ call' = [call EXCEPT ![p] =
                     [c EXCEPT !.pc = "backoff", !.delays = Append(@, step.delay)]]
                /\ UNCHANGED <<blueprintCache, lastPut>>
           ELSE AfterFetch(p, [c EXCEPT !.ended = step], step)
  /\ UNCHANGED <<now, ticks, calls, otherVars>>

\* The backoff timer fires and the attempt is made again, uncounted
WakeSameAttempt(p) ==
  /\ call[p].pc = "backoff"
  /\ call' = [call EXCEPT ![p] = [@ EXCEPT !.pc = "fetch", !.requests = @ + 1]]
  /\ UNCHANGED <<blueprintCache, now, ticks, calls, lastPut, otherVars>>

\* The backoff timer fires: `continue`, attempt++, and the next fetch.
Wake(p) ==
  /\ call[p].pc = "backoff"
  /\ call' = [call EXCEPT ![p] =
       [@ EXCEPT !.pc = "fetch", !.attempt = @ + 1, !.requests = @ + 1]]
  /\ UNCHANGED <<blueprintCache, now, ticks, calls, lastPut, otherVars>>

\* getBlueprints: the 1000 ms timer between two limits fires.
Resume(p) ==
  /\ call[p].pc = "pause"
  /\ call' = [call EXCEPT ![p] = NextLimit(@)]
  /\ UNCHANGED <<blueprintCache, now, ticks, calls, lastPut, otherVars>>

\* The caller takes the result; its call chain is over.
Finish(p) ==
  /\ call[p].pc = "done"
  /\ call' = [call EXCEPT ![p] = IdleCall]
  /\ UNCHANGED <<blueprintCache, now, ticks, calls, lastPut, otherVars>>

\* ------------------------------------------------- create-product-simple

\* The handler has awaited an operation of the client, and calls the next.
Took(t, res) == [t EXCEPT !.results = Append(@, res)]
Calling(t, pc, op) == [t EXCEPT !.pc = pc, !.log = Append(@, op)]

\* The handler's catch block: `return { isError: true, content: ... }`.
Failed(t, error) == [t EXCEPT !.pc = "done", !.isError = TRUE, !.error = error]

\* What the steps of the handler leave alone, the variants apart.
toolFrame ==
  <<blueprintCache, now, ticks, calls, lastPut, shopId, priceVars, colorVars,
    sessionVars>>

\* create-product-simple up to its first await: "STEP 1: Enhanced
\* pre-validation" (valid: it found no validation error), then
\* `await session.printifyClient.getBlueprint(blueprintId.toString())`.
SimpleStart(valid, id) ==
  /\ tool.pc = "idle"
  /\ call["p1"].pc = "idle"
  /\ IF valid
       THEN /\ tool' = Calling([tool EXCEPT !.blueprintId = id], "blueprint", "getBlueprint")
            /\ call' = [call EXCEPT !["p1"] = getBlueprint(id)]
       ELSE /\ tool' = Failed([tool EXCEPT !.blueprintId = id], "Validation failed")
            /\ UNCHANGED call
  /\ UNCHANGED <<toolFrame, matchVars>>

\* "STEP 2: Validate blueprint" from the end of its await, and "STEP 3: Get
\* print providers" up to its await.
SimpleBlueprint ==
  /\ tool.pc = "blueprint"
  /\ call["p1"].pc = "done"
  /\ LET blueprint == call["p1"].result
         t == Took(tool, blueprint)
     IN  IF blueprint.t = "throw" \/ ~Truthy(blueprint.data)
           THEN /\ tool' = Failed(t, "Blueprint validation failed")
                /\ call' = [call EXCEPT !["p1"] = IdleCall]
           ELSE /\ tool' = Calling(t, "providers", "getPrintProviders")
                /\ call' = [call EXCEPT !["p1"] = getPrintProviders(tool.blueprintId)]
  /\ UNCHANGED <<toolFrame, matchVars>>

\* "STEP 3" sending the variants request although there are no providers
SimpleProvidersUnchecked ==
  /\ tool.pc = "providers"
  /\ call["p1"].pc = "done"
  /\ tool' = Calling(Took(tool, call["p1"].result), "variants", "getVariants")
  /\ call' = [call EXCEPT !["p1"] = getVariants(tool.blueprintId)]
  /\ UNCHANGED <<toolFrame, matchVars>>

\* "STEP 3" from the end of its await: `if (!providers || providers.length
\* === 0) throw`; `const printProviderId = providers[0].id` throws a
\* TypeError when providers is an object that is no list; then "STEP 4: Get
\* and validate variants" up to its await.
SimpleProviders ==
  /\ tool.pc = "providers"
  /\ call["p1"].pc = "done"
  /\ LET providers == call["p1"].result
         t == Took(tool, providers)
     IN  IF \/ providers.t = "throw"
            \/ ~Truthy(providers.data)
            \/ providers.data = NoProvidersBody
           THEN /\ tool' = Failed(t, "Print provider lookup failed")
                /\ call' = [call EXCEPT !["p1"] = IdleCall]
         ELSE IF providers.data # ProvidersBody
           THEN /\ tool' = Failed(t, "TypeError")
                /\ call' = [call EXCEPT !["p1"] = IdleCall]
           ELSE /\ tool' = Calling(t, "variants", "getVariants")
                /\ call' = [call EXCEPT !["p1"] = getVariants(tool.blueprintId)]
  /\ UNCHANGED <<toolFrame, matchVars>>

\* "STEP 4" from the end of its await: `if (!variantsData ||
\* !variantsData.variants || variantsData.variants.length === 0) throw`;
\* then STEP 5 on the variants (list, when the body holds some), whose
\* SyntaxError ends the handler; then "STEP 6: Create product" up to
\* `await session.printifyClient.createProduct(productData)`.
SimpleVariants(list) ==
  /\ tool.pc = "variants"
  /\ call["p1"].pc = "done"
  /\ LET variantsData == call["p1"].result
         t == Took(tool, variantsData)
     IN  IF variantsData.t = "throw" \/ variantsData.data # VariantsBody
           THEN /\ tool' = Failed(t, "Variant lookup failed")
                /\ call' = [call EXCEPT !["p1"] = IdleCall]
                /\ UNCHANGED matchVars
           ELSE /\ MatchOn(list)
                /\ IF ExactTierThrows(list, ParseSizes(includeSizes))
                     THEN /\ tool' = Failed(t, "SyntaxError")
                          /\ call' = [call EXCEPT !["p1"] = IdleCall]
                     ELSE /\ tool' = Calling(t, "creating", "createProduct")
                          /\ call' = [call EXCEPT !["p1"] = ProductOp("createProduct")]
  /\ UNCHANGED toolFrame

\* "STEP 6" from the end of its await: the success response, or the error
\* result for the error createProduct threw.
SimpleCreated ==
  /\ tool.pc = "creating"
  /\ call["p1"].pc = "done"
  /\ LET product == call["p1"].result
         t == Took(tool, product)
     IN  tool' = IF product.t = "throw"
                   THEN Failed(t, "Product creation failed")
                   ELSE [t EXCEPT !.pc = "done"]
  /\ call' = [call EXCEPT !["p1"] = IdleCall]
  /\ UNCHANGED <<toolFrame, matchVars>>

\* Time passes.
TickSteps == {1, cacheTimeout - 1}
Tick(d) ==
  /\ ticks < MaxTicks
  /\ ticks' = ticks + 1
  /\ now' = now + d
  /\ UNCHANGED <<call, blueprintCache, calls, lastPut, otherVars>>

\* --------------------------------------------------------- specifications

vars == <<clientVars, matchVars, priceVars, colorVars, sessionVars, toolVars>>

Init == InitClient /\ NoMatching /\ NoPricing /\ NoColor /\ InitSessions /\ NoTool

\* One caller calling the fetchers directly, with any retry budget, against
\* an upstream that answers in any way.
NextFetch ==
  \/ \E id \in BlueprintIds, r \in 0..MaxRetries : CallMakeRequest("p1", id, r)
  \/ \E pg \in Pages, l \in Limits, r \in 0..MaxRetries :
       CallMakeCatalogRequest("p1", pg, l, r)
  \/ \E o \in AllOutcomes : Respond("p1", o)
  \/ Wake("p1")
  \/ Finish("p1")

SpecFetch == Init /\ [][NextFetch]_vars

\* One caller of the cache-first operations, and the clock.
NextCache ==
  \/ \E id \in BlueprintIds : CallGetBlueprint("p1", id)
  \/ \E pg \in Pages, l \in Limits : CallGetBlueprints("p1", pg, l)
  \/ \E o \in FewOutcomes : Respond("p1", o)
  \/ Wake("p1")
  \/ Resume("p1")
  \/ Finish("p1")
  \/ \E d \in TickSteps : Tick(d)

SpecCache == Init /\ [][NextCache]_vars

\* The answers the fetchers get where the delays are looked at.
BackoffOutcomes ==
  {Http(200, Live("d1")), Http(404, Null), Http(429, Null), Http(500, Null),
   Http(503, Null), Abort, NetErr("ECONNRESET")}

\* The two fetchers, called with the default budget of retries or more.
NextBackoff ==
  \/ \E id \in BlueprintIds, r \in DefaultRetries..MaxBackoffs :
       CallMakeRequest("p1", id, r)
  \/ \E pg \in Pages, l \in Limits, r \in DefaultRetries..MaxBackoffs :
       CallMakeCatalogRequest("p1", pg, l, r)
  \/ \E o \in BackoffOutcomes : Respond("p1", o)
  \/ Wake("p1")
  \/ Finish("p1")

SpecBackoff == Init /\ [][NextBackoff]_vars

\* The answers of an upstream of every kind: success, statuses that are
\* retried and that are not, a timeout, network errors and a broken body.
TerminateOutcomes ==
  {Http(200, Live("d1")), Http(401, Null), Http(404, Null), Http(500, Null),
   Abort, NetErr("ECONNRESET"), NetErr("ENOTFOUND"), BadJson}

\* The fetchers and getBlueprints, one call at a time.
NextTerminate ==
  \/ \E id \in BlueprintIds, r \in 0..MaxRetries : CallMakeRequest("p1", id, r)
  \/ \E pg \in Pages, l \in Limits, r \in 0..MaxRetries :
       CallMakeCatalogRequest("p1", pg, l, r)
  \/ \E pg \in Pages, l \in Limits : CallGetBlueprints("p1", pg, l)
  \/ \E o \in TerminateOutcomes : Respond("p1", o)
  \/ Wake("p1")
  \/ Resume("p1")
  \/ Finish("p1")

\* Every `await fetch` settles (the abort timer of 30 s sees to it), and
\* every timer fires.
SpecTerminate ==
  /\ Init
  /\ [][NextTerminate]_vars
  /\ WF_vars(\E o \in TerminateOutcomes : Respond("p1", o))
  /\ WF_vars(Wake("p1"))
  /\ WF_vars(Resume("p1"))

\* Two concurrent call chains on one client, getBlueprint and getBlueprints.
NextRace ==
  \/ \E p \in Procs, id \in BlueprintIds : CallGetBlueprint(p, id)
  \/ \E p \in Procs, pg \in Pages, l \in Limits : CallGetBlueprints(p, pg, l)
  \/ \E p \in Procs, o \in FewOutcomes : Respond(p, o)
  \/ \E p \in Procs : Wake(p)
  \/ \E p \in Procs : Resume(p)
  \/ \E p \in Procs : Finish(p)

SpecRace == Init /\ [][NextRace]_vars

\* The outcomes the model of the operations draws from.
OpsOutcomes ==
  {Http(200, Live("d1")), Http(401, Null), Http(404, Null), Http(500, Null),
   Abort, NetErr("ENOTFOUND")}

\* One caller of the client's operations, on a client constructed with or
\* without a shop id.
NextOps ==
  \/ \E id \in BlueprintIds : CallGetBlueprint("p1", id)
  \/ \E pg \in Pages, l \in Limits : CallGetBlueprints("p1", pg, l)
  \/ \E b \in BOOLEAN : CallSearchBlueprints("p1", b)
  \/ CallGetPopularBlueprints("p1")
  \/ \E id \in BlueprintIds : CallGetVariants("p1", id)
  \/ \E op \in ProductOps : CallProductOp("p1", op)
  \/ \E src \in ImageSources : CallUploadImage("p1", src)
  \/ \E ok \in BOOLEAN : ReadFile("p1", ok)
  \/ \E o \in OpsOutcomes : Respond("p1", o)
  \/ \E o \in OpsOutcomes : RespondUpload("p1", o)
  \/ Wake("p1")
  \/ Resume("p1")
  \/ Finish("p1")

OpsInit == (\E shop \in ShopArgs : ConstructedWith(shop)) /\ NoMatching /\ NoPricing /\ NoColor /\ InitSessions /\ NoTool

SpecOps == OpsInit /\ [][NextOps]_vars

\* What the upstream answers to the requests of create-product-simple.
SimpleOutcomes ==
  {Http(200, b) : b \in {Live("d1"), Null, ProvidersBody, NoProvidersBody,
                         VariantsBody, NoVariantsBody}}
    \cup {Http(404, Null), Http(500, Null), Abort}

\* The variant lists the upstream holds.
SimpleVariantLists ==
  {VariantsOf(<<1, 3>>), VariantsOf(<<2, 3, 4, 5, 6>>)}

\* The arguments create-product-simple is called with.
InitSimple ==
  /\ mpc = "none"
  /\ allVariants = <<>>
  /\ includeColors \in {<<"w", "h", "i", "t", "e">>, <<"p", "u", "r", "p", "l", "e">>}
  /\ includeSizes \in {<<"M">>, <<"M", ",", "L", ")">>}
  /\ requestedColors = <<>>
  /\ requestedSizes = <<>>
  /\ filteredVariants = <<>>
  /\ rungs = <<>>
  /\ matchError = ""
  /\ simpleMargin \in SimpleMargins
  /\ variants = <<>>

\* One call of create-product-simple on a client with or without a shop id.
NextSimple ==
  \/ \E valid \in BOOLEAN, id \in BlueprintIds : SimpleStart(valid, id)
  \/ SimpleBlueprint
  \/ SimpleProviders
  \/ \E list \in SimpleVariantLists : SimpleVariants(list)
  \/ SimpleCreated
  \/ \E o \in SimpleOutcomes : Respond("p1", o)
  \/ Wake("p1")

SimpleInit == (\E shop \in ShopArgs : ConstructedWith(shop)) /\ InitSimple /\ NoPricing /\ NoColor /\ InitSessions /\ NoTool

SpecSimple == SimpleInit /\ [][NextSimple]_vars

\* create-product-simple from the variants on, for every variant list and
\* every pair of includeColors and includeSizes.
NextMatch == MatchVariants /\ UNCHANGED <<clientVars, priceVars, colorVars, sessionVars, toolVars>>

MatchInit == InitClient /\ InitMatch /\ NoPricing /\ NoColor /\ InitSessions /\ NoTool

SpecMatch == MatchInit /\ [][NextMatch]_vars

\* The color names a literal match is asked for: the standard colors and the
\* keys of COLOR_MAPPINGS.
LiteralNames ==
  {standardColors[i] : i \in 1..Len(standardColors)}
    \cup {COLOR_MAPPINGS[i][1] : i \in 1..Len(COLOR_MAPPINGS)}

\* Variant titles that contain the name verbatim: "<name> / M" and
\* "Heather <name> / L".
LiteralTitles(name) ==
  {name \o <<" ", "/", " ", "M">>,
   <<"H", "e", "a", "t", "h", "e", "r", " ">> \o name \o <<" ", "/", " ", "L">>}

\* STEP 5 is run with one color name as includeColors, in lower or in upper
\* case, no includeSizes, and a variant list that holds a variant with the
\* name in its title and one of another color.
InitLiteral ==
  /\ mpc = "fetched"
  /\ \E name \in LiteralNames :
       /\ includeColors \in {name, toUpperCase(name)}
       /\ \E title \in LiteralTitles(name) :
            allVariants \in
              {<<[id |-> 1, title |-> title, cost |-> 1200],
                 [id |-> 2, title |-> TitlePool[3].title, cost |-> TitlePool[3].cost]>>,
               <<[id |-> 1, title |-> TitlePool[1].title, cost |-> TitlePool[1].cost],
                 [id |-> 2, title |-> title, cost |-> 1250]>>}
  /\ includeSizes = <<>>
  /\ requestedColors = <<>>
  /\ requestedSizes = <<>>
  /\ filteredVariants = <<>>
  /\ rungs = <<>>
  /\ matchError = ""
  /\ simpleMargin \in SimpleMargins
  /\ variants = <<>>

LiteralInit == InitClient /\ InitLiteral /\ NoPricing /\ NoColor /\ InitSessions /\ NoTool

SpecLiteral == LiteralInit /\ [][NextMatch]_vars

\* calculatePricing, called time and again with any of the arguments.
NextPrice ==
  \/ calculatePricing /\ UNCHANGED <<clientVars, matchVars, colorVars, sessionVars, toolVars>>
  \/ CallPricingAgain /\ UNCHANGED <<clientVars, matchVars, colorVars, sessionVars, toolVars>>

PriceInit == InitClient /\ NoMatching /\ InitPricing /\ NoColor /\ InitSessions /\ NoTool

SpecPrice == PriceInit /\ [][NextPrice]_vars

\* normalizeColorName, called with any of the names.
NextColor == NormalizeColor /\ UNCHANGED <<clientVars, matchVars, priceVars, sessionVars, toolVars>>

ColorInit == InitClient /\ NoMatching /\ NoPricing /\ InitColor /\ InitSessions /\ NoTool

SpecColor == ColorInit /\ [][NextColor]_vars

\* The server: registrations, connection tests and MCP requests, one at a
\* time, with the clock and the cleanup timer.
NextSessions ==
  \/ (\E key \in ApiKeys :
        /\ registered < MaxSessions
        /\ Arrive("register", 0, key)) /\ UNCHANGED <<clientVars, matchVars, priceVars, colorVars, toolVars>>
  \/ (\E key \in ApiKeys : Arrive("test", 0, key)) /\ UNCHANGED <<clientVars, matchVars, priceVars, colorVars, toolVars>>
  \/ (\E userId \in 1..MaxSessions : Arrive("mcp", userId, NoApiKey)) /\ UNCHANGED <<clientVars, matchVars, priceVars, colorVars, toolVars>>
  \/ (\E outcome \in InitializeOutcomes(req.printifyApiKey) : Register(outcome)) /\ UNCHANGED <<clientVars, matchVars, priceVars, colorVars, toolVars>>
  \/ (\E outcome \in InitializeOutcomes(req.printifyApiKey) : TestConnection(outcome)) /\ UNCHANGED <<clientVars, matchVars, priceVars, colorVars, toolVars>>
  \/ McpRequest /\ UNCHANGED <<clientVars, matchVars, priceVars, colorVars, toolVars>>
  \/ (\E outcome \in {"shops", "noShops", "throws"} : McpRecover(outcome)) /\ UNCHANGED <<clientVars, matchVars, priceVars, colorVars, toolVars>>
  \/ CleanupSessions /\ UNCHANGED <<clientVars, matchVars, priceVars, colorVars, toolVars>>
  \/ PassTime /\ UNCHANGED <<clientVars, matchVars, priceVars, colorVars, toolVars>>

SessionsInit == InitClient /\ NoMatching /\ NoPricing /\ NoColor /\ InitSessions /\ NoTool

SpecSessions == SessionsInit /\ [][NextSessions]_vars

\* ------------------------------------------------------------------ claims

\* The caller the sequential specifications run.
P1 == call["p1"]

FetcherOps == {"makeRequest", "makeCatalogRequest"}

\* Every answer the fetcher call in progress got is an HTTP 500.
OnlyServerErrors(c) ==
  \A i \in 1..Len(c.responses) :
    c.responses[i].t = "http" /\ c.responses[i].status = 500

\* C1: a fetcher call (makeRequest or makeCatalogRequest) with retry budget
\* `retries` that is answered HTTP 500 on every attempt goes on until it has
\* made retries + 1 attempts, makes no attempt beyond them, and then fails
\* with a PrintifyError of code SERVER_ERROR.
C1_RetryCeiling ==
  (P1.op \in FetcherOps /\ OnlyServerErrors(P1)) =>
    /\ Len(P1.responses) <= P1.retries + 1
    /\ P1.requests <= P1.retries + 1
    /\ (P1.pc = "done") = (Len(P1.responses) = P1.retries + 1)
    /\ P1.pc = "done" =>
         /\ P1.requests = P1.retries + 1
         /\ P1.result.t = "throw"
         /\ P1.result.err.name = "PrintifyError"
         /\ P1.result.err.code = "SERVER_ERROR"

\* C1 witness: a makeCatalogRequest with budget 3 has failed after four 500s.
C1_Witness ==
  /\ P1.op = "makeCatalogRequest"
  /\ P1.retries = 3
  /\ P1.pc = "done"
  /\ Len(P1.responses) = 4
  /\ OnlyServerErrors(P1)

\* The error code the claim names for a terminal status.
TerminalCode(status) ==
  CASE status = 401 -> "AUTH_FAILED"
    [] status = 400 -> "VALIDATION_ERROR"
    [] status = 422 -> "VALIDATION_ERROR"
    [] status = 404 -> "NOT_FOUND"

\* C2: an attempt answered HTTP 401, 400, 404 or 422 is the last attempt of
\* its fetcher call, whatever budget remains: the call has failed at once with
\* AUTH_FAILED (401), VALIDATION_ERROR (400, 422) or NOT_FOUND (404), and no
\* further request was issued.
C2_TerminalStatuses ==
  P1.op \in FetcherOps =>
    \A i \in 1..Len(P1.responses) :
      (P1.responses[i].t = "http" /\ P1.responses[i].status \in {401, 400, 404, 422}) =>
        /\ i = Len(P1.responses)
        /\ P1.requests = i
        /\ P1.pc = "done"
        /\ P1.result.t = "throw"
        /\ P1.result.err.name = "PrintifyError"
        /\ P1.result.err.code = TerminalCode(P1.responses[i].status)
        /\ P1.result.err.statusCode = P1.responses[i].status

\* C2 witness: a call with budget 3 was answered 500 and then 404, and ended
\* with two retries left.
C2_Witness ==
  /\ P1.op = "makeRequest"
  /\ P1.retries = 3
  /\ P1.pc = "done"
  /\ Len(P1.responses) = 2
  /\ P1.responses[1].status = 500
  /\ P1.responses[2].status = 404

\* ------------------------------------------------- claims on the matcher

\* The titles of a variant list, in order.
Titles(list) == [i \in 1..Len(list) |-> list[i].title]

\* The tiers consulted, in order, and the tier the result comes from: the
\* last one consulted. The code names the tiers in its debug log only.
TiersConsulted == [i \in 1..Len(rungs) |-> rungs[i].tier]
ResultTier == rungs[Len(rungs)].tier
Consulted(tier) == \E i \in 1..Len(rungs) : rungs[i].tier = tier

\* The place of a tier in the order Exact, ColorOnly, CommonFallback, FirstN.
TierRank(tier) ==
  CASE tier = "Exact" -> 1
    [] tier = "ColorOnly" -> 2
    [] tier = "CommonFallback" -> 3
    [] tier = "FirstN" -> 4

\* The text holds the word at the place pos, compared case-insensitively.
HoldsAt(text, word, pos) ==
  /\ pos + Len(word) - 1 <= Len(text)
  /\ toLowerCase(SubSeq(text, pos, pos + Len(word) - 1)) = toLowerCase(word)

\* The title contains the word.
ContainsWord(title, word) == \E pos \in 1..Len(title) : HoldsAt(title, word, pos)

\* The spellings a requested color is looked for under: the color itself and
\* its variations.
Spellings(color) ==
  {color} \cup {Variations(color)[i] : i \in 1..Len(Variations(color))}

\* The title contains a requested color, directly or through a variation.
TitleHasRequestedColor(v) ==
  \E i \in 1..Len(requestedColors) :
    \E w \in Spellings(requestedColors[i]) : ContainsWord(v.title, w)

\* The title contains the size as a token: an occurrence with no letter, digit
\* or underscore next to it, before or after.
HasSizeToken(title, size) ==
  \E pos \in 1..Len(title) :
    /\ HoldsAt(title, size, pos)
    /\ pos = 1 \/ ~IsWord(title[pos - 1])
    /\ pos + Len(size) > Len(title) \/ ~IsWord(title[pos + Len(size)])

\* The title contains a requested size as a token.
TitleHasRequestedSize(v) ==
  \E i \in 1..Len(requestedSizes) : HasSizeToken(v.title, requestedSizes[i])

\* What the claims say the Exact tier selects.
SelectedExactly(v) ==
  /\ requestedColors = <<>> \/ TitleHasRequestedColor(v)
  /\ requestedSizes = <<>> \/ TitleHasRequestedSize(v)

\* The titles and the requests of the claims' scenarios.
WhiteS == <<"W", "h", "i", "t", "e", " ", "/", " ", "S">>
WhiteM == <<"W", "h", "i", "t", "e", " ", "/", " ", "M">>
BlackL == <<"B", "l", "a", "c", "k", " ", "/", " ", "L">>
NavyL == <<"N", "a", "v", "y", " ", "/", " ", "L">>
OnlyWhite == <<<<"w", "h", "i", "t", "e">>>>
OnlyPurple == <<<<"p", "u", "r", "p", "l", "e">>>>

\* C3: STEP 5 run on a variant list that is not empty ends, whatever colors
\* and sizes are requested, with a list of matched variants that is not empty.
C3_NeverEmpty ==
  (mpc # "fetched" /\ Len(allVariants) > 0) =>
    (mpc = "matched" /\ Len(filteredVariants) > 0)

\* C4: the tiers are consulted in the order Exact, ColorOnly, CommonFallback,
\* FirstN, the Exact tier first, and a tier is consulted only when every tier
\* consulted before it matched nothing; the result is what the last tier
\* consulted matched. When the Exact tier matches a variant, the result is
\* what it matched, the result's tier is Exact and no other tier is consulted.
C4_LadderOrder ==
  mpc = "matched" =>
    /\ Len(rungs) >= 1
    /\ rungs[1].tier = "Exact"
    /\ \A i \in 1..Len(rungs) : \A j \in 1..Len(rungs) :
         i < j => /\ TierRank(rungs[i].tier) < TierRank(rungs[j].tier)
                  /\ rungs[i].matched = <<>>
    /\ filteredVariants = rungs[Len(rungs)].matched
    /\ rungs[1].matched # <<>> =>
         /\ filteredVariants = rungs[1].matched
         /\ ResultTier = "Exact"
         /\ TiersConsulted = <<"Exact">>

\* C4 witness: with colors and sizes requested, the Exact tier has matched
\* some variants and left others out, and it is the only tier consulted.
C4_Witness ==
  /\ mpc = "matched"
  /\ requestedColors # <<>>
  /\ requestedSizes # <<>>
  /\ TiersConsulted = <<"Exact">>
  /\ Len(filteredVariants) >= 1
  /\ Len(filteredVariants) < Len(allVariants)

\* C5: the Exact tier selects a variant if and only if (no color is requested
\* or its title contains a requested color, directly or through one of the
\* color's variations) and (no size is requested or its title contains a
\* requested size as a token, compared case-insensitively). The variants
\* White / S, White / M, Black / L with the colors [white] and the sizes [M]
\* give White / M alone, at the tier Exact.
C5_ExactTier ==
  mpc = "matched" =>
    /\ rungs[1].tier = "Exact"
    /\ rungs[1].matched = SelectSeq(allVariants, SelectedExactly)
    /\ ( /\ Titles(allVariants) = <<WhiteS, WhiteM, BlackL>>
         /\ requestedColors = OnlyWhite
         /\ requestedSizes = <<<<"M">>>> ) =>
         /\ Titles(filteredVariants) = <<WhiteM>>
         /\ ResultTier = "Exact"

\* C6: when the Exact tier matches nothing and a color is requested, the
\* ColorOnly tier is consulted next and matches exactly the variants whose
\* title contains a requested color, whatever sizes are requested; what it
\* matches, when it matches something, is the result. When no color is
\* requested the ColorOnly tier is not consulted. The variant White / S with
\* the colors [white] and the sizes [XL] gives White / S at the tier ColorOnly.
C6_ColorOnlyTier ==
  mpc = "matched" =>
    /\ (rungs[1].matched = <<>> /\ requestedColors # <<>>) =>
         /\ Len(rungs) >= 2
         /\ rungs[2].tier = "ColorOnly"
         /\ rungs[2].matched = SelectSeq(allVariants, TitleHasRequestedColor)
         /\ rungs[2].matched # <<>> =>
              filteredVariants = rungs[2].matched /\ ResultTier = "ColorOnly"
    /\ requestedColors = <<>> => ~Consulted("ColorOnly")
    /\ ( /\ Titles(allVariants) = <<WhiteS>>
         /\ requestedColors = OnlyWhite
         /\ requestedSizes = <<<<"X", "L">>>> ) =>
         /\ Titles(filteredVariants) = <<WhiteS>>
         /\ ResultTier = "ColorOnly"

\* C6 witness: the variant White / S asked for in white and XL has come out
\* of the ColorOnly tier.
C6_Witness ==
  /\ mpc = "matched"
  /\ Titles(allVariants) = <<WhiteS>>
  /\ requestedColors = OnlyWhite
  /\ requestedSizes = <<<<"X", "L">>>>
  /\ ResultTier = "ColorOnly"

\* The single variant Navy / L has been matched against the colors [purple]
\* and the sizes [3XL].
NavyAskedPurple ==
  /\ mpc = "matched"
  /\ Titles(allVariants) = <<NavyL>>
  /\ requestedColors = OnlyPurple
  /\ requestedSizes = <<<<"3", "X", "L">>>>

\* C7, as the claim states it: the single variant Navy / L with the colors
\* [purple] and the sizes [3XL] goes through all tiers: Exact, ColorOnly and
\* CommonFallback match nothing, and the result is Navy / L at the tier FirstN.
C7_EscalatesToFirstN ==
  NavyAskedPurple =>
    /\ TiersConsulted = <<"Exact", "ColorOnly", "CommonFallback", "FirstN">>
    /\ \A i \in 1..3 : rungs[i].matched = <<>>
    /\ Titles(filteredVariants) = <<NavyL>>
    /\ ResultTier = "FirstN"

\* C7, amended: the single variant Navy / L with the colors [purple] and the
\* sizes [3XL] stops at the CommonFallback tier: Exact and ColorOnly match
\* nothing, CommonFallback matches Navy / L (navy is a common color, L a
\* common size), which is the result, and FirstN is not consulted.
C7_StopsAtCommonFallback ==
  NavyAskedPurple =>
    /\ TiersConsulted = <<"Exact", "ColorOnly", "CommonFallback">>
    /\ rungs[1].matched = <<>>
    /\ rungs[2].matched = <<>>
    /\ rungs[3].matched = allVariants
    /\ Titles(filteredVariants) = <<NavyL>>
    /\ ResultTier = "CommonFallback"

\* C7 witness: the scenario has been run.
C7_Witness == NavyAskedPurple /\ Len(rungs) >= 3

\* The Exact, ColorOnly and CommonFallback tiers have all matched nothing:
\* CommonFallback was consulted, and no tier before FirstN matched a variant.
FirstThreeTiersEmpty ==
  /\ Consulted("CommonFallback")
  /\ \A i \in 1..Len(rungs) : rungs[i].tier # "FirstN" => rungs[i].matched = <<>>

\* C8: when the Exact, ColorOnly and CommonFallback tiers all match nothing,
\* the result is the first min(5, n) of the n source variants, in the source's
\* order, whatever colors and sizes are requested.
C8_FirstN ==
  (mpc = "matched" /\ FirstThreeTiersEmpty) =>
    LET n == Len(allVariants)
    IN  /\ Len(filteredVariants) = IF n < 5 THEN n ELSE 5
        /\ \A i \in 1..Len(filteredVariants) : filteredVariants[i] = allVariants[i]
        /\ ResultTier = "FirstN"

\* C8 witness: six variants, none matched by the first three tiers, have been
\* cut down to the first five.
C8_Witness ==
  /\ mpc = "matched"
  /\ FirstThreeTiersEmpty
  /\ Len(allVariants) = 6
  /\ Len(filteredVariants) = 5
  /\ requestedColors # <<>>
  /\ requestedSizes # <<>>


\* C9: for every key, after setCache(key, v) at time t (the last one for the
\* key), getFromCache(key) gives v while now - t < 1 hour, and null from
\* now - t = 1 hour on.
C9_CacheRespectsTTL ==
  \A k \in CacheKeys :
    lastPut[k].present =>
      IF now - lastPut[k].timestamp < 60 * 60 * 1000
        THEN getFromCache(k) = lastPut[k].data
        ELSE getFromCache(k) = Null

\* C9 witness: exactly one hour after the last put of its key, a
\* getBlueprint found nothing in the cache and is fetching.
C9_Witness ==
  /\ P1.op = "getBlueprint"
  /\ P1.pc = "fetch"
  /\ lastPut[P1.cacheKey].present
  /\ now - lastPut[P1.cacheKey].timestamp = 60 * 60 * 1000

\* The cache key the claim expects for a call.
ExpectedKey(c) ==
  IF c.op = "getBlueprint"
    THEN <<"blueprint", c.id, 0>>
    ELSE <<"blueprints", c.page, c.limit>>

CachedOps == {"getBlueprint", "getBlueprints"}

\* The step is the start of a getBlueprint or getBlueprints call.
StartsCachedOp == P1.pc = "idle" /\ call'["p1"].op \in CachedOps

\* The step is a 200 answer to a getBlueprint or getBlueprints call.
SucceedsCachedOp ==
  /\ P1.pc = "fetch"
  /\ P1.op \in CachedOps
  /\ Len(call'["p1"].responses) = Len(P1.responses) + 1
  /\ call'["p1"].responses[Len(call'["p1"].responses)].t = "http"
  /\ call'["p1"].responses[Len(call'["p1"].responses)].status = 200

LastResponse == P1.responses[Len(P1.responses)]
FetcherEnd == AttemptStep(LastResponse, P1.attempt, P1.retries)

\* Some blueprint data is in the cache.
CacheFilled == \E k \in CacheKeys : blueprintCache[k].present

\* C11: getVariants leaves the cache as it is at every step, and it ends only
\* after a request of its own to the upstream, with the end of its fetcher
\* call: the data of the live answer, or the error the fetcher threw, whatever
\* the cache holds.
C11_GetVariantsLive ==
  [][P1'.op = "getVariants" =>
       /\ blueprintCache' = blueprintCache
       /\ P1'.pc = "done" =>
            /\ P1'.requests >= 1
            /\ P1'.fetches = 1
            /\ P1'.result = AttemptStep(P1'.responses[Len(P1'.responses)],
                                        P1'.attempt, P1'.retries)]_vars

\* C11 witness: with blueprint data in the cache, a getVariants call ended in
\* the error of the upstream.
C11_Witness ==
  /\ P1.op = "getVariants"
  /\ P1.pc = "done"
  /\ CacheFilled
  /\ P1.result.t = "throw"
  /\ P1.result = FetcherEnd


\* The limit the spec gives the k-th listing call of getBlueprints(page, limit).
TierLimit(limit, k) ==
  IF k = 1 THEN (IF limit < 5 THEN limit ELSE 5) ELSE IF k = 2 THEN 3 ELSE 1

\* C12: on a cache miss getBlueprints makes at most three listing calls, the
\* k-th with limit min(limit, 5), 3, 1; each is a fetcher call of its own
\* with the full retry budget; a further call begins only after the one
\* before ended in an error other than AUTH_FAILED, and the first success
\* ends the operation with its data. When the upstream answers 5xx to every
\* attempt, the operation ends after 3 calls and 3 * (maxRetries + 1)
\* requests.
C12_LimitTiers ==
  [][\A p \in Procs :
       LET c == call[p]
           d == call'[p]
       IN  d.op = "getBlueprints" =>
             /\ d.fetches = c.fetches + 1 =>
                  /\ d.fetches <= 3
                  /\ d.endpoint = <<"blueprints", d.page, TierLimit(d.limit, d.fetches)>>
                  /\ d.attempt = 0
                  /\ d.retries = DefaultRetries
                  /\ d.fetches > 1 =>
                       /\ d.ended.t = "throw"
                       /\ d.ended.err.code # AUTH_FAILED
             /\ (c.pc = "fetch" /\ d.ended.t = "return") =>
                  /\ d.pc = "done"
                  /\ d.result = d.ended
             /\ (c.pc # "done" /\ d.pc = "done"
                   /\ d.result = Return(FallbackCatalog(d.page, d.limit))) =>
                  /\ d.fetches = 3
                  /\ d.requests = 3 * (DefaultRetries + 1)]_vars

\* C12 witness: getBlueprints went through its three listing calls against an
\* upstream answering 500, 12 requests in all, and the last limit was 1.
C12_Witness ==
  /\ P1.op = "getBlueprints"
  /\ P1.pc = "done"
  /\ P1.fetches = 3
  /\ P1.requests = 12
  /\ P1.endpoint = <<"blueprints", P1.page, 1>>
  /\ LastResponse = Http(500, Null)


\* The limits of the listing calls the call chain c has made so far.
LimitsTried(c) == [k \in 1..c.fetches |-> c.limitsToTry[k]]

\* C13: for every requested limit >= 1, the limits getBlueprints tries are
\* strictly decreasing from one listing call to the next.
C13_LimitsDecrease ==
  \A p \in Procs :
    call[p].op \in ListOps =>
      \A k \in 1..(call[p].fetches - 1) :
        LimitsTried(call[p])[k] > LimitsTried(call[p])[k + 1]

\* getBlueprints made its three listing calls and the last one, too, ended in
\* an error other than AUTH_FAILED.
AllTiersFailed ==
  /\ P1.op = "getBlueprints"
  /\ P1.pc = "done"
  /\ P1.fetches = 3
  /\ P1.ended.t = "throw"
  /\ P1.ended.err.code # AUTH_FAILED

\* C14: when all three listing calls of getBlueprints fail with non-auth
\* errors, it returns (does not throw) the hard-coded catalog, marked
\* _fallback = true, whatever the upstream answered; only current_page and
\* per_page follow the arguments.
C14_FallbackCatalog ==
  AllTiersFailed =>
    /\ P1.result.t = "return"
    /\ P1.result.data._fallback
    /\ P1.result.data.body = "fallbackBlueprints"
    /\ P1.result.data.current_page = P1.page
    /\ P1.result.data.per_page = P1.limit

\* C14 witness: the three listing calls failed, the last by a 404, and the
\* caller got the fallback catalog.
C14_Witness ==
  /\ AllTiersFailed
  /\ LastResponse = Http(404, Null)
  /\ P1.result.data._fallback

\* The last fetcher call of p1's operation ended in AUTH_FAILED (a 401).
AuthFailed ==
  /\ P1.ended.t = "throw"
  /\ P1.ended.err.code = AUTH_FAILED

\* C15: in getBlueprints, searchBlueprints and getPopularBlueprints a 401
\* ends the operation at once with the AUTH_FAILED error: no retry, no
\* further listing call, no fallback data; when the 401 is the first answer,
\* the upstream saw one request.
C15_AuthSurfaces ==
  (P1.op \in ListOps /\ AuthFailed) =>
    /\ P1.pc = "done"
    /\ P1.result = P1.ended
    /\ (P1.fetches = 1 /\ Len(P1.responses) = 1) => P1.requests = 1

\* C16: an answer 404, 400 or 422 is terminal in every operation of the
\* client, getBlueprints included: the operation is over with the classified
\* error of that answer, and no further request follows.
C16_TerminalEverywhere ==
  (P1.ended.t = "throw" /\ P1.ended.err.statusCode \in {404, 400, 422}) =>
    /\ P1.pc = "done"
    /\ P1.result = P1.ended

\* An error of the closed taxonomy: a PrintifyError with one of the codes of
\* PrintifyErrorCode.
Classified(err) == err.name = "PrintifyError" /\ err.code \in PrintifyErrorCode

\* A product operation is over after at least one request to the upstream.
ProductOpDone == P1.op \in ProductOps /\ P1.pc = "done" /\ P1.requests >= 1

\* The product operations do not degrade: a normal return follows a 2xx answer
\* and carries its body (nothing for deleteProduct), never fallback data, and
\* a failed fetcher call ends the operation with the fetcher's own error.
NeverDegrades ==
  (P1.op \in ProductOps /\ P1.pc = "done") =>
    /\ P1.result.t = "return" =>
         /\ P1.requests >= 1
         /\ LastResponse.t = "http"
         /\ ResponseOk(LastResponse.status)
         /\ P1.result.data \in {LastResponse.body, Null}
         /\ ~P1.result.data._fallback
    /\ P1.requests = 0 => P1.result.t = "throw"
    /\ P1.ended.t = "throw" => P1.result = P1.ended

\* C17: createProduct, updateProduct, deleteProduct and publishProduct never
\* degrade, and whenever their upstream call fails in the end, the error they
\* raise is the classified error.
C17_ProductOpsNeverDegrade ==
  /\ NeverDegrades
  /\ (ProductOpDone /\ P1.ended.t = "throw") => Classified(P1.result.err)

\* C18: uploadImage follows the policy of the fetchers: it gives up on a 429
\* or 5xx answer only after maxRetries retries, and the error it then raises,
\* like every error it raises for a failed upstream request, is a classified
\* one.
C18_UploadPolicy ==
  (P1.op = "uploadImage" /\ P1.pc = "done" /\ P1.requests >= 1
     /\ P1.result.t = "throw") =>
    /\ Classified(P1.result.err)
    /\ (LastResponse.t = "http" /\ RetryableStatus(LastResponse.status)) =>
         P1.requests = DefaultRetries + 1

\* C19: every failure of a fetcher call (makeRequest, makeCatalogRequest) is a
\* PrintifyError with a code of the closed set; no other error leaves the
\* fetcher.
C19_FetcherFailuresClassified ==
  (P1.op \in FetcherOps /\ P1.pc = "done" /\ P1.result.t = "throw") =>
    Classified(P1.result.err)

\* ------------------------------------------------------------------ pricing

\* calculatePricing was called with a number m, 0 < m < 1, as its margin.
MarginInUnitInterval ==
  /\ profitMargin.type = "number"
  /\ 0 < profitMargin.v
  /\ profitMargin.v < Scale

\* The integer nearest to the quotient num / den of two positive integers,
\* halves rounded up.
Rounded(num, den) ==
  CHOOSE k \in 0..(num + 1) : 2 * k * den <= 2 * num + den /\ 2 * num + den < 2 * (k + 1) * den

\* C20: for every baseCost > 0 and every margin m with 0 < m < 1,
\* calculatePricing returns the integers price = round(baseCost / (1 - m)) and
\* profit = price - baseCost; and calculatePricing(1200, "50%") returns
\* { price: 2400, profit: 1200 }.
C20_PriceFormula ==
  ppc = "returned" =>
    /\ MarginInUnitInterval =>
         /\ pricing.kind = "finite"
         /\ pricing.price = Rounded(baseCost * Scale, Scale - profitMargin.v)
         /\ pricing.profit = pricing.price - baseCost
    /\ (baseCost = 1200 /\ profitMargin = StringArg(<<"5", "0", "%">>)) =>
         pricing = Finite(2400, 1200)

\* The string "p%" of a percentage p, 0 < p < 100, and the number p / 100.
PercentString(p) ==
  (IF p < 10 THEN <<>> ELSE <<DigitSeq[(p \div 10) + 1]>>)
    \o <<DigitSeq[(p % 10) + 1], "%">>
PercentArg(p) == StringArg(PercentString(p))
FractionArg(p) == NumberArg(p * (Scale \div 100))

\* The call that returned and the call before it had the same base cost, one
\* the margin "p%" and the other the margin p / 100.
SamePercentage(p) ==
  /\ ppc = "returned"
  /\ earlier.baseCost = baseCost
  /\ \/ profitMargin = PercentArg(p) /\ earlier.profitMargin = FractionArg(p)
     \/ profitMargin = FractionArg(p) /\ earlier.profitMargin = PercentArg(p)

\* C21: for every base cost and every percentage p, 0 < p < 100,
\* calculatePricing(baseCost, "p%") and calculatePricing(baseCost, p / 100)
\* return the same price and profit.
C21_PercentEqualsFraction ==
  \A p \in 1..99 : SamePercentage(p) => pricing = earlier.pricing

\* C21 witness: calculatePricing(1200, 0.5) and then calculatePricing(1200,
\* "50%") both returned { price: 2400, profit: 1200 }.
C21_Witness ==
  /\ SamePercentage(50)
  /\ baseCost = 1200
  /\ profitMargin = PercentArg(50)
  /\ pricing = Finite(2400, 1200)
  /\ earlier.pricing = Finite(2400, 1200)

\* C22: calculatePricing fails with a ValidationError and returns no price
\* whenever the margin, as it has normalized it, is 1 or more, or is not a
\* number.
C22_RejectsBadMargin ==
  (ppc = "returned" /\ (margin.nan \/ margin.v >= Scale)) =>
    pricing.kind = "ValidationError"

\* C23: a margin given as a number greater than 1 is not divided by 100:
\* the margin calculatePricing computes with is the number itself.
C23_BareNumberPassedThrough ==
  (ppc = "returned" /\ profitMargin.type = "number" /\ profitMargin.v > Scale) =>
    margin = Num(profitMargin.v)

\* ------------------------------------------------------- color normalization

\* The canonical colors.
CanonicalColors ==
  {<<"w", "h", "i", "t", "e">>, <<"b", "l", "a", "c", "k">>, <<"g", "r", "a", "y">>,
   <<"r", "e", "d">>, <<"b", "l", "u", "e">>, <<"g", "r", "e", "e", "n">>,
   <<"p", "i", "n", "k">>, <<"p", "u", "r", "p", "l", "e">>,
   <<"y", "e", "l", "l", "o", "w">>, <<"o", "r", "a", "n", "g", "e">>,
   <<"b", "r", "o", "w", "n">>, <<"n", "a", "v", "y">>}

\* C24: normalizeColorName returns each of the twelve canonical colors as it
\* is, and "gray" for "grey".
C24_CanonicalFixedPoints ==
  npc = "returned" =>
    /\ colorName \in CanonicalColors => normalized = colorName
    /\ colorName = <<"g", "r", "e", "y">> => normalized = <<"g", "r", "a", "y">>

\* C24 witness: normalizeColorName("grey") returned "gray".
C24_Witness ==
  /\ npc = "returned"
  /\ colorName = <<"g", "r", "e", "y">>
  /\ normalized = <<"g", "r", "a", "y">>

\* C25: for every pair (synonym, canonical) of COLOR_MAPPINGS,
\* normalizeColorName(synonym) is the canonical color of the pair, also where
\* the synonym contains the name of a standard color.
C25_SynonymClosure ==
  npc = "returned" =>
    \A i \in 1..Len(COLOR_MAPPINGS) :
      colorName = COLOR_MAPPINGS[i][1] => normalized = COLOR_MAPPINGS[i][2]

\* C25 witness: normalizeColorName("teal") returned "blue", the value of the
\* table for a name that contains no standard color.
C25_Witness ==
  /\ npc = "returned"
  /\ colorName = <<"t", "e", "a", "l">>
  /\ normalized = <<"b", "l", "u", "e">>

\* ---------------------------------------------------------------- sessions

\* The MCP handler looks the session of the request up.
McpLookup ==
  /\ req.pc = "arrived"
  /\ req.route = "mcp"
  /\ req'.pc # "arrived"

\* C26: an MCP request that arrives more than one hour after the last access
\* of its session is answered with 'Session not found' and is not served by
\* that session.
C26_ExpiresAfterOneHour ==
  [][(/\ McpLookup
      /\ req.userId \in DOMAIN userSessions
      /\ serverNow - userSessions[req.userId].lastAccessed > sessionTimeout)
     => (/\ req'.status = 404
         /\ req'.code = SessionNotFound
         /\ req'.servedBy = 0)]_vars

\* A step of the handler of /api/test-connection, the arrival of the request
\* included.
TestConnectionStep ==
  /\ req'.route = "test"
  /\ req' # req

\* C27: no step of a request to /api/test-connection changes the session
\* map, whether the key is missing, accepted or rejected.
C27_TestConnectionFrame ==
  [][TestConnectionStep => userSessions' = userSessions]_vars

\* C27 witness: a connection test with a valid key has succeeded next to the
\* session of a registration, and the map holds that session alone.
C27_Witness ==
  /\ req.route = "test"
  /\ req.pc = "done"
  /\ req.status = 200
  /\ req.printifyApiKey = "valid"
  /\ registered = 1
  /\ DOMAIN userSessions = {1}

\* ------------------------------------------------------- concurrent requests

\* The call chain of p sleeps: in a backoff before a retry, or in the pause
\* between two limits.
Asleep(p) == call[p].pc \in {"backoff", "pause"}

\* The call chain of q can take its next step, whatever that is: every answer
\* of the upstream can be taken, a timer that is due can fire, the result
\* can be taken, and a new call can be made.
CanStep(q) ==
  /\ call[q].pc = "fetch" => \A o \in FewOutcomes : ENABLED Respond(q, o)
  /\ call[q].pc = "backoff" => ENABLED Wake(q)
  /\ call[q].pc = "pause" => ENABLED Resume(q)
  /\ call[q].pc = "done" => ENABLED Finish(q)
  /\ (call[q].pc = "idle" /\ calls < MaxCalls) =>
       \A id \in BlueprintIds : ENABLED CallGetBlueprint(q, id)

\* C28: while one call chain sleeps in a backoff or in the pause between two
\* limits, the other call chain on the same client can take every step it
\* has to take, up to its end.
C28_SleepSuspendsCallerOnly ==
  \A p \in Procs : \A q \in Procs \ {p} : Asleep(p) => CanStep(q)

\* C28 witness: p1 missed the cache for a blueprint and sleeps in its first
\* backoff; p2 has meanwhile fetched the same blueprint, stored it and
\* returned.
C28_Witness ==
  /\ call["p1"].pc = "backoff"
  /\ call["p1"].op = "getBlueprint"
  /\ call["p1"].attempt = 0
  /\ call["p2"].pc = "done"
  /\ call["p2"].cacheKey = call["p1"].cacheKey
  /\ call["p2"].requests > 0
  /\ call["p2"].result.t = "return"
  /\ blueprintCache[call["p1"].cacheKey] = Entry(call["p2"].result.data, now)

\* The call chain of p ends in this step with the data of a fetch of its own.
ReturnsOwnFetch(p) ==
  /\ call[p].pc = "fetch"
  /\ call'[p].pc = "done"
  /\ call'[p].result.t = "return"
  /\ ~call'[p].result.data._fallback

\* The last answer the call chain of p got.
LastAnswer(p) == call'[p].responses[Len(call'[p].responses)]

\* C29: a getBlueprint or getBlueprints call that ends with a fetch returns
\* the body of the last answer to its own request, a 2xx answer, and stores
\* it under its key over whatever another call has stored there; and the
\* entry of a key changes in no other way.
C29_LastWriterWins ==
  [][/\ \A p \in Procs :
          ReturnsOwnFetch(p) =>
            /\ LastAnswer(p) = Http(200, call'[p].result.data)
            /\ blueprintCache'[call[p].cacheKey] = Entry(call'[p].result.data, now)
     /\ \A k \in CacheKeys :
          blueprintCache'[k] # blueprintCache[k] =>
            \E p \in Procs : ReturnsOwnFetch(p) /\ call[p].cacheKey = k]_vars

\* C29 witness: both calls missed the cache for the same key, each returned
\* the body it fetched, a different one, and the cache holds that of p2.
C29_Witness ==
  /\ call["p1"].pc = "done"
  /\ call["p2"].pc = "done"
  /\ call["p1"].cacheKey = call["p2"].cacheKey
  /\ call["p1"].requests > 0
  /\ call["p2"].requests > 0
  /\ call["p1"].result = Return(Live("d1"))
  /\ call["p2"].result = Return(Live("d2"))
  /\ blueprintCache[call["p1"].cacheKey] = Entry(Live("d2"), now)

\* ------------------------------------------------------------ backoff delays

\* The delays of the default budget of retries.
DefaultHttpDelays == <<1000, 2000, 4000>>
DefaultTimeoutDelays == <<2000, 4000, 8000>>

\* The i-th answer to a fetcher is an HTTP 429 or 5xx, or none within the
\* timeout.
FailedByStatus(i) ==
  /\ P1.responses[i].t = "http"
  /\ P1.responses[i].status = 429 \/ P1.responses[i].status >= 500

TimedOut(i) == P1.responses[i].t = "abort"

\* C30: the fetcher sleeps min(1000 * 2^a, 5000) ms after the failed attempt a
\* when that was an HTTP 429 or 5xx, and min(2000 * 2^a, 10000) ms when it
\* was a timeout (a = 0, 1, ...): 1000, 2000, 4000 and 2000, 4000, 8000 with
\* the default of 3 retries; it sleeps at most `retries` times, and not after
\* its last attempt.
C30_BackoffDelays ==
  P1.op \in FetcherOps =>
    /\ \A i \in 1..Len(P1.delays) :
         /\ FailedByStatus(i) => P1.delays[i] = Min(1000 * 2 ^ (i - 1), 5000)
         /\ TimedOut(i) => P1.delays[i] = Min(2000 * 2 ^ (i - 1), 10000)
         /\ (P1.retries = DefaultRetries /\ FailedByStatus(i)) =>
              P1.delays[i] = DefaultHttpDelays[i]
         /\ (P1.retries = DefaultRetries /\ TimedOut(i)) =>
              P1.delays[i] = DefaultTimeoutDelays[i]
    /\ Len(P1.delays) <= P1.retries
    /\ P1.pc = "done" => Len(P1.delays) = Len(P1.responses) - 1

\* C30 witness: a fetcher called with 4 retries failed five times, with 500,
\* a timeout, 429, 503 and 500; it slept 1000, 4000, 4000 and 5000 ms and
\* threw after the fifth failure without sleeping.
C30_Witness ==
  /\ P1.op \in FetcherOps
  /\ P1.pc = "done"
  /\ P1.responses = <<Http(500, Null), Abort, Http(429, Null), Http(503, Null),
                      Http(500, Null)>>
  /\ P1.delays = <<1000, 4000, 4000, 5000>>
  /\ P1.result.t = "throw"

\* --------------------------------------------------------- exhausted retries

\* The answer is a transient failure: a 429, a 5xx, a connection reset, a
\* connection timeout, a broken pipe, or no answer within the timeout.
TransientFailure(o) ==
  \/ o.t = "abort"
  \/ o.t = "neterr" /\ o.code \in {"ECONNRESET", "ETIMEDOUT", "EPIPE"}
  \/ o.t = "http" /\ (o.status = 429 \/ o.status >= 500)

\* The code a transient failure is classified as.
TransientCode(o) ==
  IF o.t = "abort" THEN "TIMEOUT"
  ELSE IF o.t = "neterr" THEN "NETWORK_ERROR"
  ELSE IF o.status = 429 THEN "RATE_LIMIT"
  ELSE "SERVER_ERROR"

\* The fetcher call of p1 got transient failures only, on every attempt of
\* its budget.
RetriesExhausted ==
  /\ P1.op \in FetcherOps
  /\ Len(P1.responses) = P1.retries + 1
  /\ \A i \in 1..Len(P1.responses) : TransientFailure(P1.responses[i])

\* C31: a fetcher call whose budget is used up by transient failures fails
\* with the PrintifyError classified from the failure of its last attempt
\* (RATE_LIMIT, SERVER_ERROR, NETWORK_ERROR, TIMEOUT), whatever the earlier
\* attempts failed with, after retries + 1 requests.
C31_LastFailureClassified ==
  RetriesExhausted =>
    /\ P1.pc = "done"
    /\ P1.requests = P1.retries + 1
    /\ P1.result.t = "throw"
    /\ P1.result.err.name = "PrintifyError"
    /\ P1.result.err.code = TransientCode(P1.responses[Len(P1.responses)])

\* C31 witness: a fetcher with 3 retries failed with a 500, a timeout, a
\* connection reset and at last a 429, and threw RATE_LIMIT.
C31_Witness ==
  /\ RetriesExhausted
  /\ P1.responses = <<Http(500, Null), Abort, NetErr("ECONNRESET"), Http(429, Null)>>
  /\ P1.result.t = "throw"
  /\ P1.result.err.code = "RATE_LIMIT"

\* ------------------------------------------------------- margin of the price

Abs(x) == IF x < 0 THEN 0 - x ELSE x

\* calculatePricing has returned, and its margin was a number m, 0 <= m < 1,
\* when the price was computed.
PricedWithMargin ==
  /\ ppc = "returned"
  /\ ~margin.nan
  /\ 0 <= margin.v
  /\ margin.v < Scale

\* C32: for a base cost >= 0 and a margin m, 0 <= m < 1, the price is at
\* least the base cost, the profit is not negative, and the profit differs
\* from m times the price by at most half a minor unit; for m = p / 100 with
\* an integer p, |100 * profit - p * price| <= 50.
C32_MarginOfPrice ==
  PricedWithMargin =>
    /\ pricing.kind = "finite"
    /\ pricing.price >= baseCost
    /\ pricing.profit >= 0
    /\ 2 * Abs(Scale * pricing.profit - margin.v * pricing.price) <= Scale
    /\ \A p \in 0..99 :
         margin.v = p * (Scale \div 100) =>
           Abs(100 * pricing.profit - p * pricing.price) <= 50

\* C32 witness: calculatePricing(1250, "30%") returned price 1786 and profit
\* 536; 100 * 536 - 30 * 1786 = 20.
C32_Witness ==
  /\ PricedWithMargin
  /\ baseCost = 1250
  /\ profitMargin = StringArg(<<" ", "3", "0", " ", "%">>)
  /\ margin = Num(3000)
  /\ pricing = Finite(1786, 536)

\* --------------------------------------------------------------- termination

\* The call chain of p1 is under way, and it is over.
Underway == P1.pc \in {"fetch", "backoff", "pause"}
Over == P1.pc = "done"

\* A fetcher call makes no more than retries + 1 attempts and ends with a
\* response or an error; getBlueprints makes no more than 3 fetcher calls of
\* no more than 4 attempts each and ends with the data it found in the cache
\* or fetched, with an AUTH_FAILED error or with the fallback catalog.
WithinBudget ==
  /\ P1.op \in FetcherOps =>
       /\ P1.attempt <= P1.retries
       /\ Len(P1.responses) <= P1.retries + 1
       /\ P1.requests <= P1.retries + 1
       /\ Over => P1.result.t \in {"return", "throw"}
  /\ P1.op = "getBlueprints" =>
       /\ P1.fetches <= 3
       /\ Len(P1.responses) <= DefaultRetries + 1
       /\ P1.requests <= 3 * (DefaultRetries + 1)
       /\ Over =>
            \/ P1.result.t = "return" /\ P1.fetches = 0
            \/ P1.result.t = "return" /\ P1.result = P1.ended
            \/ P1.result.t = "throw" /\ P1.result.err.code = AUTH_FAILED
            \/ P1.result = Return(FallbackCatalog(P1.page, P1.limit))

\* C33: every fetcher call ends, after at most retries + 1 attempts, with a
\* response or an error, whatever the upstream answers; getBlueprints ends
\* after at most 3 fetcher calls with a result, an AUTH_FAILED error or the
\* fallback catalog.
C33_Terminates == []WithinBudget /\ (Underway ~> Over)

\* C33 witness: getBlueprints is over after 3 fetcher calls and 12 requests
\* that all timed out, with the fallback catalog.
C33_Witness ==
  /\ P1.op = "getBlueprints"
  /\ Over
  /\ P1.fetches = 3
  /\ P1.requests = 3 * (DefaultRetries + 1)
  /\ P1.responses = <<Abort, Abort, Abort, Abort>>
  /\ P1.result = Return(FallbackCatalog(P1.page, P1.limit))

\* ------------------------------------------------- the fallback and the cache

\* getBlueprints of p1 has returned the fallback catalog.
FallbackReturned ==
  /\ P1.op = "getBlueprints"
  /\ P1.pc = "done"
  /\ P1.result = Return(FallbackCatalog(P1.page, P1.limit))

\* C34: the step in which getBlueprints returns the fallback catalog leaves
\* the cache as it is, and no entry of the cache is marked _fallback; a
\* getBlueprints call that finds no entry for its key sends a request to the
\* upstream, and when the upstream answers it with success the call returns
\* that answer, unmarked.
C34_FallbackNotCached ==
  [][LET c == call["p1"]
         d == call'["p1"]
     IN  /\ \A k \in CacheKeys : ~blueprintCache'[k].data._fallback
         /\ (c.pc # "done" /\ d.pc = "done" /\ d.op = "getBlueprints"
               /\ d.result = Return(FallbackCatalog(d.page, d.limit))) =>
              blueprintCache' = blueprintCache
         /\ (c.pc = "idle" /\ d.op = "getBlueprints"
               /\ ~blueprintCache[d.cacheKey].present) =>
              /\ d.pc = "fetch"
              /\ d.requests = 1
         /\ (c.pc = "fetch" /\ c.op = "getBlueprints" /\ d.ended.t = "return") =>
              /\ d.pc = "done"
              /\ d.responses[Len(d.responses)] = Http(200, d.result.data)
              /\ ~d.result.data._fallback]_vars

\* C34 witness: getBlueprints has returned the fallback catalog, and the
\* cache has no entry for its key and never had one.
C34_Witness ==
  /\ FallbackReturned
  /\ blueprintCache[P1.cacheKey] = NoEntry
  /\ lastPut[P1.cacheKey] = NoEntry

\* ----------------------------------------------- reduced limits and the cache

\* C35: when a listing call of getBlueprints(page, limit) succeeds, at
\* whatever limit it was made, its response is stored under the key of the
\* page and limit that were asked for; and a getBlueprints(page, limit) that
\* finds an entry under its key younger than the TTL returns the data of the
\* entry without a request to the upstream.
C35_ReducedResponseCached ==
  [][LET c == call["p1"]
         d == call'["p1"]
     IN  /\ (c.pc = "fetch" /\ c.op = "getBlueprints" /\ d.ended.t = "return") =>
              /\ d.endpoint = <<"blueprints", d.page, d.limitsToTry[d.tier]>>
              /\ blueprintCache'[<<"blueprints", d.page, d.limit>>] =
                   Entry(d.ended.data, now)
         /\ (c.pc = "idle" /\ d.op = "getBlueprints"
               /\ blueprintCache[<<"blueprints", d.page, d.limit>>].present
               /\ now - blueprintCache[<<"blueprints", d.page, d.limit>>].timestamp
                    < cacheTimeout) =>
              /\ d.pc = "done"
              /\ d.requests = 0
              /\ d.result =
                   Return(blueprintCache[<<"blueprints", d.page, d.limit>>].data)]_vars

\* C35 witness: getBlueprints(1, 10), whose listing calls ask for 5, 3 or 1
\* blueprints, has returned without a request the data stored under the key
\* of (1, 10) some time ago.
C35_Witness ==
  /\ P1.op = "getBlueprints"
  /\ P1.pc = "done"
  /\ P1.limit = 10
  /\ P1.requests = 0
  /\ blueprintCache[<<"blueprints", 1, 10>>].present
  /\ blueprintCache[<<"blueprints", 1, 10>>].timestamp < now
  /\ P1.result = Return(blueprintCache[<<"blueprints", 1, 10>>].data)

\* ------------------------------------------------- failures and the cache

\* The entry of key k is older than the TTL.
Stale(k) ==
  /\ blueprintCache[k].present
  /\ now - blueprintCache[k].timestamp >= cacheTimeout

\* C36: the step in which a getBlueprint or getBlueprints call fails leaves
\* the cache as it is; no step removes an entry, and an entry changes only
\* when a call for its key stores the data it has fetched; a call that finds
\* a stale entry under its key does not return it but sends a request.
C36_FailureKeepsCache ==
  [][LET c == call["p1"]
         d == call'["p1"]
     IN  /\ (c.pc # "done" /\ d.pc = "done" /\ d.op \in CachedOps
               /\ d.result.t = "throw") =>
              blueprintCache' = blueprintCache
         /\ \A k \in CacheKeys :
              /\ blueprintCache[k].present => blueprintCache'[k].present
              /\ blueprintCache'[k] # blueprintCache[k] =>
                   /\ c.pc = "fetch"
                   /\ d.cacheKey = k
                   /\ d.ended.t = "return"
                   /\ blueprintCache'[k] = Entry(d.ended.data, now)
         /\ (c.pc = "idle" /\ d.op \in CachedOps /\ Stale(d.cacheKey)) =>
              /\ d.pc = "fetch"
              /\ d.result = Pending]_vars

\* C36 witness: getBlueprint found a stale entry under its key, fetched and
\* failed; the entry is there with the data and the time of its last put.
C36_Witness ==
  /\ P1.op = "getBlueprint"
  /\ P1.pc = "done"
  /\ P1.requests > 0
  /\ P1.result.t = "throw"
  /\ Stale(P1.cacheKey)
  /\ blueprintCache[P1.cacheKey] = lastPut[P1.cacheKey]

\* C37: normalizing the requested color never loses a literal match: when
\* includeColors is one standard color or one key of COLOR_MAPPINGS, no size
\* is requested, and a variant's title contains that name (in any case),
\* the variant is among those the exact filter selects after
\* normalizeColorName has been applied to the request.
C37_LiteralMatchKept ==
  (mpc = "matched" /\ toLowerCase(includeColors) \in LiteralNames /\ includeSizes = <<>>)
    => \A i \in 1..Len(allVariants) :
         includes(toLowerCase(allVariants[i].title), toLowerCase(includeColors))
           => /\ rungs[1].tier = "Exact"
              /\ \E j \in 1..Len(rungs[1].matched) : rungs[1].matched[j] = allVariants[i]

\* --------------------------------------------------- the priced variants

\* The list is a subsequence of allVariants, in its order and without a
\* variant twice: its entries are entries of allVariants (the ids are the
\* places there), at places that grow.
SubsequenceOfSource(list) ==
  /\ \A i \in 1..Len(list) :
       /\ list[i].id \in 1..Len(allVariants)
       /\ list[i] = allVariants[list[i].id]
  /\ \A i \in 1..Len(list) : \A j \in (i + 1)..Len(list) : list[i].id < list[j].id

\* C38: whatever tier produces it, the matched variant list is a
\* duplicate-free subsequence of the source variant list in the source's
\* order, and the priced variants hold exactly one entry per matched variant,
\* with that variant's id, in the same order, priced from that variant's own
\* cost.
C38_PricedVariantsFollowMatched ==
  mpc = "matched"
    => /\ SubsequenceOfSource(filteredVariants)
       /\ \A r \in 1..Len(rungs) : SubsequenceOfSource(rungs[r].matched)
       /\ filteredVariants = rungs[Len(rungs)].matched
       /\ Len(variants) = Len(filteredVariants)
       /\ \A i \in 1..Len(variants) :
            /\ variants[i].variantId = filteredVariants[i].id
            /\ variants[i].price =
                 PriceOf(Pricing(filteredVariants[i].cost, Margin(simpleMargin)))

\* C38 witness: of four or more variants two of different costs, neither the
\* first nor the last of the source, were matched by a fallback tier and
\* priced at twice their own costs (the margin is 50%).
C38_Witness ==
  /\ mpc = "matched"
  /\ Len(allVariants) >= 4
  /\ Len(rungs) >= 2
  /\ Len(filteredVariants) = 2
  /\ filteredVariants[1].id > 1
  /\ filteredVariants[2].id < Len(allVariants)
  /\ filteredVariants[1].cost # filteredVariants[2].cost
  /\ variants[1] = [variantId |-> filteredVariants[1].id,
                    price |-> [kind |-> "finite", v |-> 2 * filteredVariants[1].cost],
                    isEnabled |-> TRUE]
  /\ variants[2] = [variantId |-> filteredVariants[2].id,
                    price |-> [kind |-> "finite", v |-> 2 * filteredVariants[2].cost],
                    isEnabled |-> TRUE]

\* ------------------------------------------------- create-product-simple

\* The i-th lookup of create-product-simple has succeeded: getBlueprint with
\* a blueprint, getPrintProviders with a list of providers that is not
\* empty, getVariants with a list of variants that is not empty.
LookupSucceeded(i) ==
  /\ Len(tool.results) >= i
  /\ tool.results[i].t = "return"
  /\ CASE i = 1 -> tool.results[i].data # Null
       [] i = 2 -> tool.results[i].data = ProvidersBody
       [] i = 3 -> tool.results[i].data = VariantsBody

\* A lookup of create-product-simple has failed (it threw, or gave nothing),
\* or getPrintProviders or getVariants returned an empty list.
LookupFailed ==
  \E i \in 1..Min(3, Len(tool.results)) :
    \/ tool.results[i].t = "throw"
    \/ tool.results[i].data = Null
    \/ i = 2 /\ tool.results[i].data = NoProvidersBody
    \/ i = 3 /\ tool.results[i].data = NoVariantsBody

\* The lookups, in the order the claim gives.
Lookups == <<"getBlueprint", "getPrintProviders", "getVariants">>

\* C39: create-product-simple issues the createProduct request only after
\* getBlueprint, getPrintProviders and getVariants have each succeeded, in
\* that order, with a provider list and a variant list that are not empty;
\* when one of these lookups fails or returns an empty list, no createProduct
\* request is sent and the tool returns an error result.
C39_CreateAfterLookups ==
  /\ \A i \in 1..Len(tool.log) :
       tool.log[i] = "createProduct"
         => /\ SubSeq(tool.log, 1, i - 1) = Lookups
            /\ \A j \in 1..3 : LookupSucceeded(j)
  /\ (call["p1"].op = "createProduct" /\ call["p1"].requests > 0)
       => tool.log = Lookups \o <<"createProduct">>
  /\ LookupFailed
       => /\ tool.pc = "done"
          /\ tool.isError
          /\ tool.log = SubSeq(Lookups, 1, Len(tool.results))
          /\ call["p1"].pc = "idle"

\* C39 witness: the three lookups have succeeded, the variants are matched
\* and priced, and the createProduct request is on its way.
C39_Witness ==
  /\ tool.pc = "creating"
  /\ tool.log = Lookups \o <<"createProduct">>
  /\ \A j \in 1..3 : LookupSucceeded(j)
  /\ call["p1"].op = "createProduct"
  /\ call["p1"].pc = "fetch"
  /\ call["p1"].requests = 1
  /\ Len(variants) > 0

\* The failure happens too: the providers came as an empty list, and the
\* tool has returned an error result after two calls of the client.
EmptyProvidersRefused ==
  /\ tool.pc = "done"
  /\ tool.isError
  /\ tool.log = <<"getBlueprint", "getPrintProviders">>
  /\ tool.results[2] = Return(NoProvidersBody)

\* ------------------------------------------------- the session map's entries

\* C40: the session map gains an entry only through a successful
\* registration, that is in the step of /api/register in which initialize
\* has returned for the key, and the entry is the one answered with status
\* 200; a registration whose initialization fails stores no session; an MCP
\* request for a user id without a session is answered 404 with code -32001
\* at once, with no session created and no call of the upstream on the way.
C40_SessionsByRegistrationOnly ==
  [][/\ (DOMAIN userSessions' \ DOMAIN userSessions # {})
          => /\ req.route = "register"
             /\ req.pc = "initializing"
             /\ req.printifyApiKey = "valid"
             /\ req' = [Answer(req, 200, 0) EXCEPT !.userId = req'.userId]
             /\ DOMAIN userSessions' = DOMAIN userSessions \cup {req'.userId}
             /\ userSessions'[req'.userId].printifyApiKey = req.printifyApiKey
     /\ (req.route = "register" /\ req.pc # "done" /\ req'.pc = "done" /\ req'.status # 200)
          => userSessions' = userSessions
     /\ (req.route = "mcp" /\ req.pc = "arrived" /\ req' # req
           /\ req.userId \notin DOMAIN userSessions)
          => /\ req' = Answer(req, 404, SessionNotFound)
             /\ userSessions' = userSessions]_vars

\* C40 witness: after the one registration that succeeded, an MCP request for user id 2 has been answered with "Session not found",
\* and the map holds the session of the registration alone.
C40_Witness ==
  /\ req.route = "mcp"
  /\ req.pc = "done"
  /\ req.userId = 2
  /\ req.status = 404
  /\ req.code = SessionNotFound
  /\ req.servedBy = 0
  /\ registered = 1
  /\ DOMAIN userSessions = {1}

====
